---- MODULE Spec2Model ----
(***************************************************************************)
(* Reachy Mini solar-system lesson: the fuzzy interpretation engine        *)
(* (normalize, tokenize, parse_menu_choice, match_faq, is_correct_answer)  *)
(* and the audio device resolver (find_reachy_device) of                   *)
(* reachy_solar_system_lite_voice_full.py.                                 *)
(*                                                                         *)
(* A Python str is a sequence of characters; a character is a one-letter   *)
(* string, except "TAB" (U+0009), "U+0130" (LATIN CAPITAL LETTER I WITH    *)
(* DOT ABOVE) and "U+0307" (COMBINING DOT ABOVE).  Python's None is the    *)
(* empty set and an Optional value x is {x}.                               *)
(***************************************************************************)
EXTENDS Integers, Sequences, FiniteSets, TLC

VARIABLES pc, fn, raw, option_keywords, accepted_answers, devices, direction, ret

\* the audio system: the device list sd.query_devices() returns now, and
\* which of the optional modules and model data are there
VARIABLES sys_devices, backends

\* detect_reachy_audio: its locals, the test playbacks made so far as
\* <<device index, succeeded>> pairs, and the device-list changes so far
VARIABLES input_idx, output_idx, scan_i, alt_found, played, hotplugs

\* the recorded clip, the OfflineVoiceIO session (None or an object), the
\* synthesis engines created and not stopped, the temporary WAV file, and
\* what the current call has done so far
VARIABLES audio, voice, engines, tmp_file, events

\* run(): the menu choice being carried out (None or a token) and the number
\* of the level being delivered (0 when none is)
VARIABLES choice, level

\* the simulation programs' question_loop: its local off_topic_mode
VARIABLES off_topic_mode

\* the text-to-speech talker: the properties of self.tts_engine
VARIABLES tts_engine

callVars == <<pc, fn, raw, option_keywords, accepted_answers, devices, direction, ret>>

detectVars == <<sys_devices, input_idx, output_idx, scan_i, alt_found, played, hotplugs>>

voiceVars == <<audio, voice, engines, tmp_file, events>>

runVars == <<choice, level>>

otherVars == <<off_topic_mode, tts_engine>>

vars == <<callVars, detectVars, voiceVars, backends, runVars, otherVars>>

\* ---------------------------------------------------------------------
\* Bounds of the explored inputs
\* ---------------------------------------------------------------------
MaxLen == 4

\* ---------------------------------------------------------------------
\* Python values
\* ---------------------------------------------------------------------
None == {}

Some(x) == {x}

Range(s) == {s[i] : i \in DOMAIN s}

\* ---------------------------------------------------------------------
\* str methods used by the program
\* ---------------------------------------------------------------------
UpperChars == <<"A","B","C","D","E","F","G","H","I","J","K","L","M","N","O","P","Q","R","S","T","U","V","W","X","Y","Z">>

LowerChars == <<"a","b","c","d","e","f","g","h","i","j","k","l","m","n","o","p","q","r","s","t","u","v","w","x","y","z">>

DigitChars == {"0","1","2","3","4","5","6","7","8","9"}

\* str.isalnum() of one character; U+00B2 is SUPERSCRIPT TWO
isalnum(ch) == ch \in Range(UpperChars) \cup Range(LowerChars) \cup DigitChars \cup {"U+0130", "U+00B2"}

\* str.isspace() of one character
isspace(ch) == ch \in {" ", "TAB"}

\* str.lower() of one character: U+0130 is the one character whose lowercase
\* is two characters
lower(ch) ==
  IF \E i \in DOMAIN UpperChars : UpperChars[i] = ch
  THEN <<LowerChars[CHOOSE i \in DOMAIN UpperChars : UpperChars[i] = ch]>>
  ELSE IF ch = "U+0130" THEN <<"i", "U+0307">>
  ELSE <<ch>>

RECURSIVE str_lower(_)
\* str.lower() of a string
str_lower(s) == IF s = <<>> THEN <<>> ELSE lower(Head(s)) \o str_lower(Tail(s))

RECURSIVE lstrip(_)
lstrip(s) == IF s # <<>> /\ isspace(Head(s)) THEN lstrip(Tail(s)) ELSE s

RECURSIVE rstrip(_)
rstrip(s) == IF s # <<>> /\ isspace(s[Len(s)]) THEN rstrip(SubSeq(s, 1, Len(s) - 1)) ELSE s

\* str.strip()
strip(s) == rstrip(lstrip(s))

RECURSIVE split(_)
\* str.split(): the maximal runs of non-whitespace characters, in order
split(s) ==
  LET t == lstrip(s) IN
  IF t = <<>> THEN <<>>
  ELSE LET n == IF \E i \in DOMAIN t : isspace(t[i])
                THEN (CHOOSE i \in DOMAIN t : isspace(t[i]) /\ \A j \in 1..(i-1) : ~isspace(t[j])) - 1
                ELSE Len(t)
       IN <<SubSeq(t, 1, n)>> \o split(SubSeq(t, n + 1, Len(t)))

\* sub in s, for strings
contains(sub, s) == \E i \in 0..(Len(s) - Len(sub)) : SubSeq(s, i + 1, i + Len(sub)) = sub

\* ---------------------------------------------------------------------
\* normalize, tokenize
\* ---------------------------------------------------------------------
RECURSIVE keep_lower(_)
\* "".join(ch.lower() for ch in text if ch.isalnum() or ch.isspace())
keep_lower(text) ==
  IF text = <<>> THEN <<>>
  ELSE IF isalnum(Head(text)) \/ isspace(Head(text))
       THEN lower(Head(text)) \o keep_lower(Tail(text))
       ELSE keep_lower(Tail(text))

normalize(text) == strip(keep_lower(text))

tokenize(text) == split(normalize(text))

\* ---------------------------------------------------------------------
\* Menu-choice resolution.  A dict is the sequence of its <<key, value>>
\* items in insertion order.
\* ---------------------------------------------------------------------
SPOKEN_NUMBERS ==
  << <<<<"o","n","e">>, <<"1">>>>,
     <<<<"w","o","n">>, <<"1">>>>,
     <<<<"w","a","n","t">>, <<"1">>>>,
     <<<<"t","w","o">>, <<"2">>>>,
     <<<<"t","o">>, <<"2">>>>,
     <<<<"t","o","o">>, <<"2">>>>,
     <<<<"t","h","r","e","e">>, <<"3">>>>,
     <<<<"t","r","e","e">>, <<"3">>>>,
     <<<<"f","r","e","e">>, <<"3">>>>,
     <<<<"f","o","u","r">>, <<"4">>>>,
     <<<<"f","o","r">>, <<"4">>>>,
     <<<<"f","o","r","e">>, <<"4">>>>,
     <<<<"f","i","v","e">>, <<"5">>>>,
     <<<<"s","i","x">>, <<"6">>>>,
     <<<<"s","e","x">>, <<"6">>>>,
     <<<<"s","i","t","s">>, <<"6">>>> >>

MAIN_MENU_KEYWORDS ==
  << <<<<"f","u","l","l"," ","l","e","s","s","o","n">>, <<"1">>>>,
     <<<<"a","l","l"," ","l","e","v","e","l","s">>, <<"1">>>>,
     <<<<"r","u","n"," ","f","u","l","l">>, <<"1">>>>,
     <<<<"s","t","a","r","t"," ","l","e","s","s","o","n">>, <<"1">>>>,
     <<<<"a","l","l"," ","s","i","x">>, <<"1">>>>,
     <<<<"s","i","n","g","l","e"," ","l","e","v","e","l">>, <<"2">>>>,
     <<<<"p","i","c","k"," ","a"," ","l","e","v","e","l">>, <<"2">>>>,
     <<<<"c","h","o","o","s","e"," ","a"," ","l","e","v","e","l">>, <<"2">>>>,
     <<<<"o","n","e"," ","l","e","v","e","l">>, <<"2">>>>,
     <<<<"s","e","l","e","c","t"," ","l","e","v","e","l">>, <<"2">>>>,
     <<<<"a","s","k"," ","a"," ","q","u","e","s","t","i","o","n">>, <<"3">>>>,
     <<<<"q","u","e","s","t","i","o","n">>, <<"3">>>>,
     <<<<"a","s","k">>, <<"3">>>>,
     <<<<"e","x","i","t">>, <<"4">>>>,
     <<<<"q","u","i","t">>, <<"4">>>>,
     <<<<"b","y","e">>, <<"4">>>>,
     <<<<"g","o","o","d","b","y","e">>, <<"4">>>>,
     <<<<"d","o","n","e">>, <<"4">>>> >>

LEVEL_KEYWORDS ==
  << <<<<"f","o","u","n","d","a","t","i","o","n">>, <<"1">>>>,
     <<<<"c","h","e","m","i","s","t","r","y">>, <<"1">>>>,
     <<<<"d","e","n","s","i","t","y">>, <<"1">>>>,
     <<<<"c","o","r","e">>, <<"2">>>>,
     <<<<"n","u","c","l","e","a","r">>, <<"2">>>>,
     <<<<"f","u","s","i","o","n">>, <<"2">>>>,
     <<<<"r","a","d","i","a","t","i","v","e">>, <<"3">>>>,
     <<<<"p","h","o","t","o","n">>, <<"3">>>>,
     <<<<"r","a","n","d","o","m"," ","w","a","l","k">>, <<"3">>>>,
     <<<<"c","o","n","v","e","c","t","i","o","n">>, <<"4">>>>,
     <<<<"t","h","e","r","m","o","d","y","n","a","m","i","c","s">>, <<"4">>>>,
     <<<<"l","a","v","a"," ","l","a","m","p">>, <<"4">>>>,
     <<<<"m","a","g","n","e","t","i","s","m">>, <<"5">>>>,
     <<<<"a","t","m","o","s","p","h","e","r","e">>, <<"5">>>>,
     <<<<"e","l","e","c","t","r","o","m","a","g","n","e","t","i","s","m">>, <<"5">>>>,
     <<<<"m","a","g","n","e","t","i","c">>, <<"5">>>>,
     <<<<"s","o","l","a","r"," ","w","i","n","d">>, <<"6">>>>,
     <<<<"p","l","a","s","m","a"," ","d","y","n","a","m","i","c","s">>, <<"6">>>>,
     <<<<"h","e","l","i","o","s","p","h","e","r","e">>, <<"6">>>> >>

\* dict.values()
values(d) == {d[i][2] : i \in DOMAIN d}

\* key in dict
has_key(d, k) == \E i \in DOMAIN d : d[i][1] = k

\* dict[key]
lookup(d, k) == d[CHOOSE i \in DOMAIN d : d[i][1] = k][2]

RECURSIVE spoken_number_scan_StopAtFirstLexiconWord(_, _)
\* mutant: a lexicon word whose digit is no token of the table ends the scan
spoken_number_scan_StopAtFirstLexiconWord(words, table) ==
  IF words = <<>> THEN None
  ELSE IF has_key(SPOKEN_NUMBERS, Head(words))
       THEN IF lookup(SPOKEN_NUMBERS, Head(words)) \in values(table)
            THEN Some(lookup(SPOKEN_NUMBERS, Head(words)))
            ELSE None
       ELSE spoken_number_scan_StopAtFirstLexiconWord(Tail(words), table)

RECURSIVE spoken_number_scan_AnyDigit(_, _)
\* mutant: the digit is returned without the test against the table's tokens
spoken_number_scan_AnyDigit(words, table) ==
  IF words = <<>> THEN None
  ELSE IF has_key(SPOKEN_NUMBERS, Head(words))
       THEN Some(lookup(SPOKEN_NUMBERS, Head(words)))
       ELSE spoken_number_scan_AnyDigit(Tail(words), table)

RECURSIVE spoken_number_scan(_, _)
\* for word in text.split(): if word in SPOKEN_NUMBERS: digit = ...;
\*   if digit in option_keywords.values(): return digit
spoken_number_scan(words, table) ==
  IF words = <<>> THEN None
  ELSE IF has_key(SPOKEN_NUMBERS, Head(words))
          /\ lookup(SPOKEN_NUMBERS, Head(words)) \in values(table)
       THEN Some(lookup(SPOKEN_NUMBERS, Head(words)))
       ELSE spoken_number_scan(Tail(words), table)

RECURSIVE keyword_phrase_scan(_, _)
\* for phrase, choice in option_keywords.items(): if phrase in text: return choice
keyword_phrase_scan(items, text) ==
  IF items = <<>> THEN None
  ELSE IF contains(Head(items)[1], text) THEN Some(Head(items)[2])
       ELSE keyword_phrase_scan(Tail(items), text)

parse_menu_choice(raw_text, table) ==
  LET text == normalize(raw_text) IN
  IF text = <<>> THEN None
  ELSE IF text \in values(table) THEN Some(text)
  ELSE IF spoken_number_scan(split(text), table) # None
       THEN spoken_number_scan(split(text), table)
       ELSE keyword_phrase_scan(table, text)

\* ---------------------------------------------------------------------
\* FAQ lookup and answer matching
\* ---------------------------------------------------------------------
FAQ_ENTRIES ==
  << [keywords |-> <<<<"p","l","a","s","m","a">>, <<"i","o","n","i","z","e","d">>, <<"c","h","a","r","g","e","d"," ","p","a","r","t","i","c","l","e","s">>>>,
      response |-> "Plasma is a super-hot gas where electrons are freed from atoms."],
     [keywords |-> <<<<"s","h","i","n","e">>, <<"l","i","g","h","t">>, <<"e","n","e","r","g","y">>, <<"f","u","s","i","o","n">>>>,
      response |-> "Fusion in the core releases energy that slowly escapes as light and heat."],
     [keywords |-> <<<<"s","u","n","s","p","o","t">>, <<"s","p","o","t">>, <<"d","a","r","k">>>>,
      response |-> "A sunspot is a cooler, darker area with very strong magnetic fields."],
     [keywords |-> <<<<"s","o","l","a","r"," ","w","i","n","d">>, <<"w","i","n","d">>, <<"h","e","l","i","o","s","p","h","e","r","e">>>>,
      response |-> "The solar wind is a stream of charged particles flowing out from the Sun."],
     [keywords |-> <<<<"a","g","e">>, <<"o","l","d">>, <<"f","o","r","m","e","d">>>>,
      response |-> "The Sun is about 4.6 billion years old."],
     [keywords |-> <<<<"m","a","g","n","e","t","i","c">>, <<"m","a","g","n","e","t","i","s","m">>, <<"f","l","a","r","e">>, <<"e","r","u","p","t","i","o","n">>>>,
      response |-> "Moving plasma twists magnetic fields, which can snap and release flares."],
     [keywords |-> <<<<"c","o","r","e">>, <<"g","r","a","v","i","t","y">>, <<"p","r","e","s","s","u","r","e">>>>,
      response |-> "In the core, gravity creates huge pressure that makes fusion possible."],
     [keywords |-> <<<<"c","o","n","v","e","c","t","i","o","n">>, <<"r","i","s","e">>, <<"s","i","n","k">>>>,
      response |-> "Hot plasma rises, cools, and sinks in a rolling convection cycle."],
     [keywords |-> <<<<"r","a","d","i","a","t","i","v","e">>, <<"p","h","o","t","o","n">>, <<"z","i","g">>>>,
      response |-> "Photons bounce around in a random walk before escaping the Sun."],
     [keywords |-> <<<<"h","o","w"," ","b","i","g">>, <<"s","i","z","e">>, <<"d","i","a","m","e","t","e","r">>, <<"s","u","n">>>>,
      response |-> "The Sun is huge -- about 1.39 million kilometers wide."],
     [keywords |-> <<<<"h","o","w"," ","b","i","g">>, <<"s","i","z","e">>, <<"d","i","a","m","e","t","e","r">>, <<"e","a","r","t","h">>>>,
      response |-> "Earth is about 12,742 kilometers wide."],
     [keywords |-> <<<<"d","i","s","t","a","n","c","e">>, <<"f","a","r">>, <<"s","u","n">>, <<"e","a","r","t","h">>, <<"a","w","a","y">>>>,
      response |-> "The Sun is about 150 million kilometers away from Earth."],
     [keywords |-> <<<<"h","o","t">>, <<"t","e","m","p","e","r","a","t","u","r","e">>, <<"s","u","r","f","a","c","e">>>>,
      response |-> "The Sun's surface is about 5,500 degrees Celsius."],
     [keywords |-> <<<<"h","o","t">>, <<"t","e","m","p","e","r","a","t","u","r","e">>, <<"c","o","r","e">>>>,
      response |-> "The Sun's core is about 15 million degrees Celsius."],
     [keywords |-> <<<<"l","i","g","h","t">>, <<"t","r","a","v","e","l">>, <<"s","u","n">>, <<"e","a","r","t","h">>, <<"t","i","m","e">>, <<"m","i","n","u","t","e","s">>>>,
      response |-> "Light from the Sun reaches Earth in about 8 minutes 20 seconds."],
     [keywords |-> <<<<"h","o","w"," ","f","a","s","t">>, <<"s","p","e","e","d">>, <<"l","i","g","h","t">>>>,
      response |-> "Light travels about 300,000 kilometers per second."] >>

\* the score one keyword phrase adds to its entry
keyword_score(kw, tokens, question) ==
  IF Range(tokenize(kw)) \subseteq tokens THEN 2
  ELSE IF contains(kw, normalize(question)) THEN 1
  ELSE 0

RECURSIVE entry_score(_, _, _)
\* score = 0; for kw in entry.keywords: score += ...
entry_score(keywords, tokens, question) ==
  IF keywords = <<>> THEN 0
  ELSE keyword_score(Head(keywords), tokens, question)
       + entry_score(Tail(keywords), tokens, question)

RECURSIVE faq_scan_LastWins(_, _, _, _, _)
\* mutant: score >= best_score, the last of the tied entries is kept
faq_scan_LastWins(entries, tokens, question, best, best_score) ==
  IF entries = <<>> THEN [best |-> best, best_score |-> best_score]
  ELSE LET score == entry_score(Head(entries).keywords, tokens, question) IN
       IF score >= best_score
       THEN faq_scan_LastWins(Tail(entries), tokens, question, Some(Head(entries)), score)
       ELSE faq_scan_LastWins(Tail(entries), tokens, question, best, best_score)

RECURSIVE faq_scan(_, _, _, _, _)
\* for entry in FAQ_ENTRIES: ... if score > best_score: best_score = score; best = entry
faq_scan(entries, tokens, question, best, best_score) ==
  IF entries = <<>> THEN [best |-> best, best_score |-> best_score]
  ELSE LET score == entry_score(Head(entries).keywords, tokens, question) IN
       IF score > best_score
       THEN faq_scan(Tail(entries), tokens, question, Some(Head(entries)), score)
       ELSE faq_scan(Tail(entries), tokens, question, best, best_score)

\* mutant: the threshold is best_score > 2
faq_lookup_StrictThreshold(entries, question) ==
  LET tokens == Range(tokenize(question))
      r == faq_scan(entries, tokens, question, None, 0) IN
  IF r.best # None /\ r.best_score > 2
  THEN Some((CHOOSE e \in r.best : TRUE).response)
  ELSE None

faq_lookup(entries, question) ==
  LET tokens == Range(tokenize(question))
      r == faq_scan(entries, tokens, question, None, 0) IN
  IF r.best # None /\ r.best_score >= 2
  THEN Some((CHOOSE e \in r.best : TRUE).response)
  ELSE None

match_faq(question) == faq_lookup(FAQ_ENTRIES, question)

\* mutant: the token-subset test is missing
answer_matches_SubstringOnly(ans, user) ==
  normalize(ans) # <<>> /\ contains(normalize(ans), normalize(user))

\* the test one accepted phrasing is put to
answer_matches(ans, user) ==
  \/ normalize(ans) # <<>> /\ contains(normalize(ans), normalize(user))
  \/ Range(tokenize(ans)) # {} /\ Range(tokenize(ans)) \subseteq Range(tokenize(user))

\* mutant: "return False" inside the loop, only the first phrasing is tried
is_correct_answer_FirstOnly(user, answers) ==
  answers # <<>> /\ answer_matches(Head(answers), user)

RECURSIVE is_correct_answer(_, _)
\* for ans in accepted_answers: ... return True;  return False
is_correct_answer(user, answers) ==
  IF answers = <<>> THEN FALSE
  ELSE IF answer_matches(Head(answers), user) THEN TRUE
       ELSE is_correct_answer(user, Tail(answers))

\* ---------------------------------------------------------------------
\* Audio device resolution.  A device is a record of the fields the
\* program reads; its index is its position in the catalog, counted from 0.
\* ---------------------------------------------------------------------
REACHY_MIC_KEYWORDS ==
  << <<"r","e","a","c","h","y"," ","m","i","n","i"," ","a","u","d","i","o">>,
     <<"e","c","h","o"," ","c","a","n","c","e","l","l","i","n","g">>,
     <<"r","e","a","c","h","y">>,
     <<"p","o","l","l","e","n">> >>

REACHY_SPEAKER_KEYWORDS ==
  << <<"o","u","t","p","u","t"," ","(","r","e","a","c","h","y">>,
     <<"r","e","a","c","h","y"," ","m","i","n","i"," ","a","u","d","i","o">>,
     <<"r","e","a","c","h","y">>,
     <<"p","o","l","l","e","n">> >>

\* the two "continue" tests and the name test of the inner loop
device_matches(dev, dir, keyword) ==
  /\ ~(dir = "input" /\ dev.max_input_channels = 0)
  /\ ~(dir = "output" /\ dev.max_output_channels = 0)
  /\ contains(keyword, str_lower(dev.name))

RECURSIVE device_scan(_, _, _, _)
\* for i, dev in enumerate(devices): ... return i
device_scan(devs, i, dir, keyword) ==
  IF i >= Len(devs) THEN None
  ELSE IF device_matches(devs[i + 1], dir, keyword) THEN Some(i)
       ELSE device_scan(devs, i + 1, dir, keyword)

RECURSIVE keyword_scan(_, _, _)
\* for keyword in keywords: <inner loop>;  return None
keyword_scan(keywords, devs, dir) ==
  IF keywords = <<>> THEN None
  ELSE IF device_scan(devs, 0, dir, Head(keywords)) # None
       THEN device_scan(devs, 0, dir, Head(keywords))
       ELSE keyword_scan(Tail(keywords), devs, dir)

direction_keywords(dir) == IF dir = "input" THEN REACHY_MIC_KEYWORDS ELSE REACHY_SPEAKER_KEYWORDS

\* mutant: the loops are nested the other way round, the first device that
\* matches any keyword wins
find_reachy_device_DeviceOrderFirst(devs, dir) ==
  LET hits == {i \in 0..(Len(devs) - 1) :
                 \E k \in DOMAIN direction_keywords(dir) :
                    device_matches(devs[i + 1], dir, direction_keywords(dir)[k])}
  IN IF hits = {} THEN None ELSE Some(CHOOSE i \in hits : \A j \in hits : i <= j)

find_reachy_device(devs, dir) == keyword_scan(direction_keywords(dir), devs, dir)

\* ---------------------------------------------------------------------
\* Inputs
\* ---------------------------------------------------------------------
\* all strings over an alphabet of at most n characters
Strings(alphabet, n) == UNION {[1..k -> alphabet] : k \in 0..n}

RECURSIVE Concats(_, _)
\* the concatenations of at most n pieces
Concats(pieces, n) ==
  IF n = 0 THEN {<<>>}
  ELSE Concats(pieces, n - 1) \cup {p \o s : p \in pieces, s \in Concats(pieces, n - 1)}

\* lists of at most n elements of a set
Lists(S, n) == UNION {[1..k -> S] : k \in 0..n}

NormalizeAlphabet == {"a", "B", "1", " ", ",", "-", "U+0130"}

HelloWorld == <<" ","H","e","l","l","o",","," ","W","o","r","l","d","!","!"," ">>

FullDashLesson == <<"f","u","l","l"," ","-"," ","l","e","s","s","o","n">>

FullLesson == <<"f","u","l","l"," ","l","e","s","s","o","n">>

NormalizeInputs == Strings(NormalizeAlphabet, MaxLen) \cup {HelloWorld, FullDashLesson, FullLesson}

\* ---------------------------------------------------------------------
\* The calls.  A behaviour is one call of one function: Init chooses the
\* function and its arguments, the action returns its value in ret.
\* ---------------------------------------------------------------------
\* every optional module imported and the model directory in place
AllBackends == [sd |-> "ok", vosk |-> TRUE, pyttsx3 |-> TRUE, model_dir |-> TRUE]

\* no detection under way
DetectIdle ==
  /\ sys_devices = <<>>
  /\ input_idx = None /\ output_idx = None
  /\ scan_i = 0 /\ alt_found = FALSE
  /\ played = <<>> /\ hotplugs = 0

\* no voice session
VoiceIdle ==
  /\ audio = <<>> /\ voice = None
  /\ engines = 0 /\ tmp_file = FALSE
  /\ events = <<>>

\* no lesson program running
RunIdle == choice = None /\ level = 0

\* the other programs are not running
OtherIdle == off_topic_mode = FALSE /\ tts_engine = None

\* a call of a pure function of the interpretation engine
PureCall == DetectIdle /\ VoiceIdle /\ RunIdle /\ OtherIdle /\ backends = AllBackends

NoArgs ==
  /\ option_keywords = <<>>
  /\ accepted_answers = <<>>
  /\ devices = <<>>
  /\ direction = "input"

InitNormalize ==
  /\ pc = "call" /\ fn = "normalize" /\ ret = None
  /\ PureCall
  /\ raw \in NormalizeInputs
  /\ NoArgs

Normalize ==
  /\ pc = "call" /\ fn = "normalize"
  /\ ret' = normalize(raw)
  /\ pc' = "done"
  /\ UNCHANGED <<fn, raw, option_keywords, accepted_answers, devices, direction>>
  /\ UNCHANGED <<detectVars, voiceVars, backends, otherVars, runVars>>

SpecNormalize == InitNormalize /\ [][Normalize]_vars

Returned(f) == pc = "done" /\ fn = f

\* ---------------------------------------------------------------------
\* Properties of normalize
\* ---------------------------------------------------------------------
\* C8: normalize is idempotent, normalize(normalize(x)) = normalize(x) for
\* every input string, and normalize(" Hello, World!! ") = "hello world".
C8_NormalizeIdempotent ==
  Returned("normalize") =>
    /\ normalize(ret) = ret
    /\ raw = HelloWorld => ret = <<"h","e","l","l","o"," ","w","o","r","l","d">>

has_double_space(s) == \E i \in 1..(Len(s) - 1) : isspace(s[i]) /\ isspace(s[i + 1])

\* C9: the output of normalize is lowercase, holds only alphanumeric
\* characters and whitespace, has no leading or trailing whitespace and
\* never two consecutive whitespace characters; "full - lesson" and
\* "full lesson" normalize to the same text.
C9_NormalizeShape ==
  Returned("normalize") =>
    /\ str_lower(ret) = ret
    /\ \A i \in DOMAIN ret : isalnum(ret[i]) \/ isspace(ret[i])
    /\ ret # <<>> => ~isspace(ret[1]) /\ ~isspace(ret[Len(ret)])
    /\ ~has_double_space(ret)
    /\ raw = FullDashLesson => ret = normalize(FullLesson)

\* ---------------------------------------------------------------------
\* Calls of parse_menu_choice
\* ---------------------------------------------------------------------
MaxPieces == 3

MenuPieces ==
  { <<"1">>, <<"5">>, <<"W","o","n">>, <<"f","i","v","e">>, <<"t","o">>, <<"A","s","k">>, <<"q","u","i","t">>, <<"x","y","z">>, <<"c","o","r","e">>, <<" ">>, <<",">>, <<"-">> }

AskAQuestion == <<"I","'","d"," ","l","i","k","e"," ","t","o"," ","a","s","k"," ","a"," ","q","u","e","s","t","i","o","n">>

MenuExamples ==
  { <<"I","'","d"," ","l","i","k","e"," ","t","o"," ","a","s","k"," ","a"," ","q","u","e","s","t","i","o","n">>, <<"w","o","n">>, <<"s","i","x">>, <<"f","u","l","l"," ","-"," ","l","e","s","s","o","n">>, <<"o","n","e"," ","l","e","v","e","l">>, <<"a","l","l"," ","s","i","x">> }

MenuTables == {MAIN_MENU_KEYWORDS, LEVEL_KEYWORDS}

\* the phrase keys of the two tables
TablePhrases == UNION { {t[k][1] : k \in DOMAIN t} : t \in MenuTables }

MenuInputs == Concats(MenuPieces, MaxPieces) \cup MenuExamples \cup TablePhrases

InitMenu ==
  /\ pc = "call" /\ fn = "parse_menu_choice" /\ ret = None
  /\ PureCall
  /\ raw \in MenuInputs
  /\ option_keywords \in MenuTables
  /\ accepted_answers = <<>>
  /\ devices = <<>>
  /\ direction = "input"

ParseMenuChoice ==
  /\ pc = "call" /\ fn = "parse_menu_choice"
  /\ ret' = parse_menu_choice(raw, option_keywords)
  /\ pc' = "done"
  /\ UNCHANGED <<fn, raw, option_keywords, accepted_answers, devices, direction>>
  /\ UNCHANGED <<detectVars, voiceVars, backends, otherVars, runVars>>

SpecMenu == InitMenu /\ [][ParseMenuChoice]_vars

\* the least element of a non-empty set of integers
Least(S) == CHOOSE x \in S : \A y \in S : x <= y

\* C1: parse_menu_choice("I'd like to ask a question", MAIN_MENU_KEYWORDS)
\* returns "3", and reaches it through the keyword-phrase tier.
C1_AskAQuestionIsThree ==
  (Returned("parse_menu_choice") /\ raw = AskAQuestion /\ option_keywords = MAIN_MENU_KEYWORDS) =>
    /\ ret = Some(<<"3">>)
    /\ normalize(raw) \notin values(option_keywords)
    /\ spoken_number_scan(split(normalize(raw)), option_keywords) = None

\* C24: a phrase key of a menu keyword table, given to parse_menu_choice
\* with that table, resolves to the token the table maps it to.
C24_PhraseResolvesToOwnToken ==
  Returned("parse_menu_choice") =>
    \A k \in DOMAIN option_keywords :
       option_keywords[k][1] = raw => ret = Some(option_keywords[k][2])

\* the words of the text that the spoken-number tier accepts
SpokenHits(text, table) ==
  {i \in DOMAIN split(text) :
     \E j \in DOMAIN SPOKEN_NUMBERS :
        SPOKEN_NUMBERS[j][1] = split(text)[i] /\ SPOKEN_NUMBERS[j][2] \in values(table)}

\* the phrases of the table that occur in the text
PhraseHits(text, table) == {i \in DOMAIN table : contains(table[i][1], text)}

\* the result the three tiers define, first success first
TieredChoice(text, table) ==
  IF text \in values(table) THEN Some(text)
  ELSE IF SpokenHits(text, table) # {}
       THEN {SPOKEN_NUMBERS[j][2] : j \in {k \in DOMAIN SPOKEN_NUMBERS :
                SPOKEN_NUMBERS[k][1] = split(text)[Least(SpokenHits(text, table))]}}
  ELSE IF PhraseHits(text, table) # {}
       THEN Some(table[Least(PhraseHits(text, table))][2])
  ELSE None

\* C2: parse_menu_choice returns the result of the first tier that succeeds:
\* (1) the normalized text is a token of the table, (2) the first word, left
\* to right, that is in the spoken-number lexicon with a digit of the table,
\* (3) the first phrase in table order that occurs in the text; otherwise
\* nothing.  "1" -> "1", "won" -> "1", "xyz" -> nothing on the main menu.
C2_ThreeTiersInOrder ==
  Returned("parse_menu_choice") =>
    /\ ret = TieredChoice(normalize(raw), option_keywords)
    /\ option_keywords = MAIN_MENU_KEYWORDS =>
         /\ raw = <<"1">> => ret = Some(<<"1">>)
         /\ raw = <<"w","o","n">> => ret = Some(<<"1">>)
         /\ raw = <<"x","y","z">> => ret = None

\* C2 witness: on the main menu "five to" skips "five" (5 is no token of the
\* table) and returns the digit of "to".
C2_Witness ==
  /\ Returned("parse_menu_choice") /\ option_keywords = MAIN_MENU_KEYWORDS
  /\ raw = <<"f","i","v","e"," ","t","o">>
  /\ ret = Some(<<"2">>)

\* C3: the value parse_menu_choice returns is nothing or a token of the
\* table; a text whose normalized form is empty yields nothing; "five" and
\* "six" yield no choice on the main menu.
C3_ChoiceIsTokenOfTable ==
  Returned("parse_menu_choice") =>
    /\ ret = None \/ \E v \in values(option_keywords) : ret = Some(v)
    /\ normalize(raw) = <<>> => ret = None
    /\ (option_keywords = MAIN_MENU_KEYWORDS /\ normalize(raw) \in {<<"f","i","v","e">>, <<"s","i","x">>}) => ret = None

\* C3 witness: "five" was put to the main menu and gave nothing.
C3_Witness ==
  /\ Returned("parse_menu_choice") /\ option_keywords = MAIN_MENU_KEYWORDS
  /\ raw = <<"f","i","v","e">>
  /\ ret = None

\* ---------------------------------------------------------------------
\* Calls of is_correct_answer
\* ---------------------------------------------------------------------
MaxAnswers == 2

AnswerPhrasings ==
  { <<"p","l","a","s","m","a">>, <<>>, <<"!","!">>, <<"h","o","t"," ","p","l","a","s","m","a">> }

AnswerPieces ==
  { <<"p","l","a","s","m","a">>, <<"h","o","t">>, <<" ">>, <<"s">> }

Plasma == <<"p","l","a","s","m","a">>

ItIsPlasmaForSure == <<"i","t"," ","i","s"," ","p","l","a","s","m","a"," ","f","o","r"," ","s","u","r","e">>

NoIdea == <<"n","o"," ","i","d","e","a">>

AnswerLists == Lists(AnswerPhrasings, MaxAnswers)

AnswerInputs == Concats(AnswerPieces, MaxPieces) \cup AnswerPhrasings \cup {ItIsPlasmaForSure, NoIdea}

InitAnswer ==
  /\ pc = "call" /\ fn = "is_correct_answer" /\ ret = None
  /\ PureCall
  /\ raw \in AnswerInputs
  /\ accepted_answers \in AnswerLists
  /\ option_keywords = <<>>
  /\ devices = <<>>
  /\ direction = "input"

IsCorrectAnswer ==
  /\ pc = "call" /\ fn = "is_correct_answer"
  /\ ret' = is_correct_answer(raw, accepted_answers)
  /\ pc' = "done"
  /\ UNCHANGED <<fn, raw, option_keywords, accepted_answers, devices, direction>>
  /\ UNCHANGED <<detectVars, voiceVars, backends, otherVars, runVars>>

SpecAnswer == InitAnswer /\ [][IsCorrectAnswer]_vars

\* C4 as stated: every phrasing p of the accepted list, the empty and the
\* punctuation-only ones included, is a correct answer to its own list.
C4_ReflexiveOnEveryPhrasing ==
  (Returned("is_correct_answer") /\ raw \in Range(accepted_answers)) => ret = TRUE

\* C4 as amended: every phrasing p of the accepted list whose normalized form
\* is not empty is a correct answer to its own list.
C4_ReflexiveOnNonEmptyPhrasing ==
  (Returned("is_correct_answer") /\ raw \in Range(accepted_answers) /\ normalize(raw) # <<>>)
     => ret = TRUE

\* C4 witness: the phrasing given as the answer is the second of its list.
C4_Witness ==
  /\ Returned("is_correct_answer") /\ Len(accepted_answers) = 2
  /\ raw = accepted_answers[2] /\ raw # accepted_answers[1]
  /\ ~answer_matches(accepted_answers[1], raw)
  /\ normalize(raw) # <<>>
  /\ ret = TRUE

\* the words of a text, as a set
Words(text) == Range(split(normalize(text)))

\* the phrasing a accepts the user's text
Accepts(a, user) ==
  \/ Len(normalize(a)) > 0 /\ contains(normalize(a), normalize(user))
  \/ Cardinality(Words(a)) > 0 /\ \A w \in Words(a) : w \in Words(user)

\* the lists of the length of A that hold the phrasings of A, in any order
Reorderings(A) == {B \in [DOMAIN A -> Range(A)] : Range(B) = Range(A)}

\* C5: is_correct_answer(user, A) is true exactly if some phrasing of A has
\* a non-empty normalized form occurring in the normalized user text, or a
\* non-empty token set included in the user's; so the order of A does not
\* matter, adding phrasings never rejects an accepted answer, and with
\* A = ["plasma"], "it is plasma for sure" is accepted and "no idea" is not.
C5_AcceptedIffSomePhrasingMatches ==
  Returned("is_correct_answer") =>
    /\ ret = (\E i \in DOMAIN accepted_answers : Accepts(accepted_answers[i], raw))
    /\ \A B \in Reorderings(accepted_answers) : is_correct_answer(raw, B) = ret
    /\ \A p \in AnswerPhrasings :
         ret = TRUE => /\ is_correct_answer(raw, Append(accepted_answers, p))
                       /\ is_correct_answer(raw, <<p>> \o accepted_answers)
    /\ accepted_answers = <<Plasma>> =>
         /\ raw = ItIsPlasmaForSure => ret = TRUE
         /\ raw = NoIdea => ret = FALSE

\* C5 witness: "plasma hot" is accepted by the phrasing "hot plasma", whose
\* words it holds in another order, the second phrasing of the list.
C5_Witness ==
  /\ Returned("is_correct_answer")
  /\ raw = <<"p","l","a","s","m","a"," ","h","o","t">>
  /\ accepted_answers = <<<<"!","!">>, <<"h","o","t"," ","p","l","a","s","m","a">>>>
  /\ ret = TRUE

\* ---------------------------------------------------------------------
\* Calls of match_faq
\* ---------------------------------------------------------------------
FaqPieces ==
  { <<"h","o","w">>, <<"o","l","d">>, <<"s","u","n">>, <<"w","i","n","d">>, <<"b","i","g">>, <<"y">>, <<" ">>, <<"?">> }

HowOldIsTheSun == <<"h","o","w"," ","o","l","d"," ","i","s"," ","t","h","e"," ","s","u","n">>

Hello == <<"h","e","l","l","o">>

SolarWindy == <<"s","o","l","a","r"," ","w","i","n","d","y">>

FaqInputs == Concats(FaqPieces, MaxPieces) \cup {HowOldIsTheSun, Hello, SolarWindy}

InitFaq ==
  /\ pc = "call" /\ fn = "match_faq" /\ ret = None
  /\ PureCall
  /\ raw \in FaqInputs
  /\ NoArgs

MatchFaq ==
  /\ pc = "call" /\ fn = "match_faq"
  /\ ret' = match_faq(raw)
  /\ pc' = "done"
  /\ UNCHANGED <<fn, raw, option_keywords, accepted_answers, devices, direction>>
  /\ UNCHANGED <<detectVars, voiceVars, backends, otherVars, runVars>>

SpecFaq == InitFaq /\ [][MatchFaq]_vars

\* the keyword phrases of an entry all of whose tokens are among qwords
FullHits(e, qwords) ==
  {k \in DOMAIN e.keywords : \A w \in Words(e.keywords[k]) : w \in qwords}

\* the other keyword phrases of an entry that occur in the text qtext
WeakHits(e, qwords, qtext) ==
  {k \in DOMAIN e.keywords : k \notin FullHits(e, qwords) /\ contains(e.keywords[k], qtext)}

Score(e, qwords, qtext) ==
  2 * Cardinality(FullHits(e, qwords)) + Cardinality(WeakHits(e, qwords, qtext))

\* the score of every entry of the table, as <<index, score>> pairs
Scores(question) ==
  LET qwords == Words(question)
      qtext == normalize(question)
  IN {<<i, Score(FAQ_ENTRIES[i], qwords, qtext)>> : i \in DOMAIN FAQ_ENTRIES}

\* C6: match_faq scores an entry by 2 for each keyword phrase whose tokens
\* are all in the question, else 1 if the raw phrase occurs in the
\* normalized question; it returns the response of the highest-scoring entry,
\* the earliest among ties, exactly if that score is at least 2, and nothing
\* otherwise, in particular for a question whose normalized form is empty.
C6_BestEntryAtLeastTwo ==
  Returned("match_faq") =>
    LET scores == Scores(raw)
        top == CHOOSE p \in scores : \A q \in scores : q[2] < p[2] \/ (q[2] = p[2] /\ p[1] <= q[1])
    IN /\ top[2] >= 2 => ret = Some(FAQ_ENTRIES[top[1]].response)
       /\ top[2] < 2 => ret = None
       /\ normalize(raw) = <<>> => ret = None

\* C6 witness: "solar windy" holds "solar wind" and "wind" only as
\* substrings; the two weak hits add up to 2 and the entry is returned.
C6_Witness ==
  /\ Returned("match_faq") /\ raw = SolarWindy
  /\ <<4, 2>> \in Scores(raw) /\ FullHits(FAQ_ENTRIES[4], Words(raw)) = {}
  /\ ret = Some(FAQ_ENTRIES[4].response)

\* C7: match_faq("how old is the sun") is the Sun-age response although later
\* entries listing "sun" reach the same score; match_faq("hello") is nothing.
C7_HowOldIsTheSun ==
  Returned("match_faq") =>
    /\ raw = HowOldIsTheSun => ret = Some("The Sun is about 4.6 billion years old.")
    /\ raw = Hello => ret = None

\* C7 witness: the Sun-age answer was returned and a later entry ties with it.
C7_Witness ==
  /\ Returned("match_faq") /\ raw = HowOldIsTheSun
  /\ ret = Some(FAQ_ENTRIES[5].response)
  /\ \E j \in 6..Len(FAQ_ENTRIES) : {<<5, 2>>, <<j, 2>>} \subseteq Scores(raw)

\* ---------------------------------------------------------------------
\* Calls of find_reachy_device
\* ---------------------------------------------------------------------
MaxDevices == 3

ReachyMiniAudio == <<"R","e","a","c","h","y"," ","M","i","n","i"," ","A","u","d","i","o">>

ReachyCamera == <<"R","e","a","c","h","y"," ","C","a","m","e","r","a">>

DeviceNames ==
  { ReachyMiniAudio, ReachyCamera,
    <<"O","u","t","p","u","t"," ","(","R","e","a","c","h","y"," ","M","i","n","i"," ","A","u","d","i","o",")">>,
    <<"R","e","a","l","t","e","k"," ","H","D"," ","A","u","d","i","o">> }

\* what sd.query_devices() can list: a device has channels in at least one
\* direction
Devices ==
  {d \in [name : DeviceNames, max_input_channels : {0, 2}, max_output_channels : {0, 2}] :
     d.max_input_channels + d.max_output_channels > 0}

Catalogs == Lists(Devices, MaxDevices)

InitDevice ==
  /\ pc = "call" /\ fn = "find_reachy_device" /\ ret = None
  /\ PureCall
  /\ devices \in Catalogs
  /\ direction \in {"input", "output"}
  /\ raw = <<>>
  /\ option_keywords = <<>>
  /\ accepted_answers = <<>>

FindReachyDevice ==
  /\ pc = "call" /\ fn = "find_reachy_device"
  /\ ret' = find_reachy_device(devices, direction)
  /\ pc' = "done"
  /\ UNCHANGED <<fn, raw, option_keywords, accepted_answers, devices, direction>>
  /\ UNCHANGED <<detectVars, voiceVars, backends, otherVars, runVars>>

SpecDevice == InitDevice /\ [][FindReachyDevice]_vars

\* the device's channel count for a direction
Channels(d, dir) == IF dir = "input" THEN d.max_input_channels ELSE d.max_output_channels

\* the indices, from 0, of the devices of the catalog that match a keyword
Eligible(devs, dir, keyword) ==
  {i \in 0..(Len(devs) - 1) :
     Channels(devs[i + 1], dir) # 0 /\ contains(keyword, str_lower(devs[i + 1].name))}

\* the positions in the keyword list of the keywords some device matches
MatchedKeywords(devs, dir) ==
  {k \in DOMAIN direction_keywords(dir) : Eligible(devs, dir, direction_keywords(dir)[k]) # {}}

\* C10: find_reachy_device returns the index of the first device in catalog
\* order that matches the earliest keyword of the direction's list having
\* any match (lowercased name contains the keyword, channel count of the
\* direction nonzero), None if no keyword matches an eligible device; the
\* one-device catalog "Reachy Mini Audio" (2 in, 2 out) resolves to index 0
\* in both directions.
C10_KeywordPriorityThenDeviceOrder ==
  Returned("find_reachy_device") =>
    /\ MatchedKeywords(devices, direction) = {} => ret = None
    /\ MatchedKeywords(devices, direction) # {} =>
         ret = Some(Least(Eligible(devices, direction,
                     direction_keywords(direction)[Least(MatchedKeywords(devices, direction))])))
    /\ devices = <<[name |-> ReachyMiniAudio, max_input_channels |-> 2, max_output_channels |-> 2]>>
         => ret = Some(0)

\* C10 witness: the camera microphone is listed first, the speakerphone
\* second; the earlier keyword "reachy mini audio" picks the second device.
C10_Witness ==
  /\ Returned("find_reachy_device") /\ direction = "input"
  /\ Len(devices) = 2
  /\ devices[1].name = ReachyCamera /\ devices[1].max_input_channels = 2
  /\ devices[2].name = ReachyMiniAudio /\ devices[2].max_input_channels = 2
  /\ ret = Some(1)

\* ---------------------------------------------------------------------
\* detect_reachy_audio, step by step.  The device list of the system can
\* change while the detection runs, and every test playback can fail.
\* ---------------------------------------------------------------------
MaxDetectDevices == 3

MaxHotplug == 1

OutputReachyMiniAudio == <<"O","u","t","p","u","t"," ","(","R","e","a","c","h","y"," ","M","i","n","i"," ","A","u","d","i","o",")">>

RealtekHDAudio == <<"R","e","a","l","t","e","k"," ","H","D"," ","A","u","d","i","o">>

Reachy == <<"r","e","a","c","h","y">>

DetectDevices ==
  { [name |-> ReachyMiniAudio, max_input_channels |-> 2, max_output_channels |-> 2],
    [name |-> OutputReachyMiniAudio, max_input_channels |-> 0, max_output_channels |-> 2],
    [name |-> ReachyCamera, max_input_channels |-> 2, max_output_channels |-> 0],
    [name |-> RealtekHDAudio, max_input_channels |-> 2, max_output_channels |-> 2] }

DetectCatalogs == Lists(DetectDevices, MaxDetectDevices)

\* the value of an Optional that is not None
Val(o) == CHOOSE x \in o : TRUE

\* the list without its k-th element
Without(devs, k) == SubSeq(devs, 1, k - 1) \o SubSeq(devs, k + 1, Len(devs))

\* the list with d put in after its first k elements
WithAt(devs, k, d) == SubSeq(devs, 1, k) \o <<d>> \o SubSeq(devs, k + 1, Len(devs))

\* the device lists one unplugging or one plugging-in leads to
Replugged(devs) ==
  {Without(devs, k) : k \in DOMAIN devs}
  \cup (IF Len(devs) < MaxDetectDevices
        THEN {WithAt(devs, k, d) : k \in 0..Len(devs), d \in DetectDevices}
        ELSE {})

\* mutant: the failed device itself is tried again
fallback_candidate_NoSkip(d, i, failed_idx) ==
  /\ d.max_output_channels # 0
  /\ contains(Reachy, str_lower(d.name))

\* the three "continue" tests of the fallback loop
fallback_candidate(d, i, failed_idx) ==
  /\ Some(i) # failed_idx
  /\ d.max_output_channels # 0
  /\ contains(Reachy, str_lower(d.name))

\* mutant: the selection is not cleared
after_fallback_scan_KeepsFailed(found, idx) == idx

\* if not alt_found: output_idx = None
after_fallback_scan(found, idx) == IF found THEN idx ELSE None

InitDetect ==
  /\ pc = "query" /\ fn = "detect_reachy_audio" /\ ret = None
  /\ sys_devices \in DetectCatalogs
  /\ backends \in {[AllBackends EXCEPT !.sd = b] : b \in {"ok", "missing", "broken"}}
  /\ input_idx = None /\ output_idx = None
  /\ scan_i = 0 /\ alt_found = FALSE
  /\ played = <<>> /\ hotplugs = 0
  /\ raw = <<>> /\ NoArgs
  /\ VoiceIdle /\ RunIdle /\ OtherIdle

\* devices = sd.query_devices(), and the listing that is printed
DetectQuery ==
  /\ pc = "query" /\ fn = "detect_reachy_audio"
  /\ IF backends.sd = "ok"
     THEN devices' = sys_devices /\ pc' = "find_input"
     ELSE devices' = devices /\ pc' = "raised"
  /\ UNCHANGED <<fn, raw, option_keywords, accepted_answers, direction, ret>>
  /\ UNCHANGED <<detectVars, voiceVars, backends, otherVars, runVars>>

\* input_idx = find_reachy_device("input"), which queries the devices itself
DetectFindInput ==
  /\ pc = "find_input"
  /\ input_idx' = find_reachy_device(sys_devices, "input")
  /\ pc' = "find_output"
  /\ UNCHANGED <<fn, raw, option_keywords, accepted_answers, devices, direction, ret>>
  /\ UNCHANGED <<sys_devices, output_idx, scan_i, alt_found, played, hotplugs, voiceVars, backends, otherVars, runVars>>

\* output_idx = find_reachy_device("output")
DetectFindOutput ==
  /\ pc = "find_output"
  /\ output_idx' = find_reachy_device(sys_devices, "output")
  /\ pc' = "report_input"
  /\ UNCHANGED <<fn, raw, option_keywords, accepted_answers, devices, direction, ret>>
  /\ UNCHANGED <<sys_devices, input_idx, scan_i, alt_found, played, hotplugs, voiceVars, backends, otherVars, runVars>>

\* dev = devices[idx] raises IndexError
OutOfRange(idx, devs) == idx # None /\ Val(idx) >= Len(devs)

\* if input_idx is not None: dev = devices[input_idx]; print ...
DetectReportInput ==
  /\ pc = "report_input"
  /\ pc' = IF OutOfRange(input_idx, devices) THEN "raised" ELSE "report_output"
  /\ UNCHANGED <<fn, raw, option_keywords, accepted_answers, devices, direction, ret>>
  /\ UNCHANGED <<detectVars, voiceVars, backends, otherVars, runVars>>

\* if output_idx is not None: dev = devices[output_idx]; print ...
DetectReportOutput ==
  /\ pc = "report_output"
  /\ pc' = IF output_idx = None THEN "return"
           ELSE IF OutOfRange(output_idx, devices) THEN "raised"
           ELSE "verify"
  /\ UNCHANGED <<fn, raw, option_keywords, accepted_answers, devices, direction, ret>>
  /\ UNCHANGED <<detectVars, voiceVars, backends, otherVars, runVars>>

\* try: sd.play(test_audio, device=output_idx); sd.wait()  except: ...
DetectVerify ==
  /\ pc = "verify"
  /\ \E ok \in BOOLEAN :
       /\ played' = Append(played, <<Val(output_idx), ok>>)
       /\ pc' = IF ok THEN "return" ELSE "fallback"
  /\ scan_i' = 0 /\ alt_found' = FALSE
  /\ UNCHANGED <<fn, raw, option_keywords, accepted_answers, devices, direction, ret>>
  /\ UNCHANGED <<sys_devices, input_idx, output_idx, hotplugs, voiceVars, backends, otherVars, runVars>>

\* one turn of "for i, d in enumerate(devices)", or the end of the loop
DetectFallback ==
  /\ pc = "fallback"
  /\ IF scan_i >= Len(devices)
     THEN /\ output_idx' = after_fallback_scan(alt_found, output_idx)
          /\ pc' = "return"
          /\ UNCHANGED <<scan_i, alt_found, played>>
     ELSE IF ~fallback_candidate(devices[scan_i + 1], scan_i, output_idx)
     THEN /\ scan_i' = scan_i + 1
          /\ UNCHANGED <<pc, output_idx, alt_found, played>>
     ELSE \E ok \in BOOLEAN :
          /\ played' = Append(played, <<scan_i, ok>>)
          /\ IF ok
             THEN /\ output_idx' = Some(scan_i) /\ alt_found' = TRUE
                  /\ pc' = "return" /\ scan_i' = scan_i
             ELSE /\ scan_i' = scan_i + 1
                  /\ UNCHANGED <<pc, output_idx, alt_found>>
  /\ UNCHANGED <<fn, raw, option_keywords, accepted_answers, devices, direction, ret>>
  /\ UNCHANGED <<sys_devices, input_idx, hotplugs, voiceVars, backends, otherVars, runVars>>

\* return input_idx, output_idx
DetectReturn ==
  /\ pc = "return" /\ fn = "detect_reachy_audio"
  /\ ret' = <<input_idx, output_idx>>
  /\ pc' = "done"
  /\ UNCHANGED <<fn, raw, option_keywords, accepted_answers, devices, direction>>
  /\ UNCHANGED <<detectVars, voiceVars, backends, otherVars, runVars>>

\* a device is plugged in or unplugged while the detection runs
Hotplug ==
  /\ fn = "detect_reachy_audio" /\ pc \notin {"done", "raised"}
  /\ hotplugs < MaxHotplug
  /\ sys_devices' \in Replugged(sys_devices)
  /\ hotplugs' = hotplugs + 1
  /\ UNCHANGED <<callVars, input_idx, output_idx, scan_i, alt_found, played, voiceVars, backends, otherVars, runVars>>

NextDetect ==
  \/ DetectQuery \/ DetectFindInput \/ DetectFindOutput
  \/ DetectReportInput \/ DetectReportOutput
  \/ DetectVerify \/ DetectFallback \/ DetectReturn
  \/ Hotplug

SpecDetect == InitDetect /\ [][NextDetect]_vars

\* the other devices with outputs whose lowercased name holds "reachy"
FallbackCandidates(devs, failed) ==
  {i \in 0..(Len(devs) - 1) :
     i # failed /\ devs[i + 1].max_output_channels > 0 /\ contains(Reachy, str_lower(devs[i + 1].name))}

\* the devices a test playback was made on after the first one
TriedAfterFirst == {played[k][1] : k \in 2..Len(played)}

\* the devices a test playback succeeded on
PlayedOk == {played[k][1] : k \in {j \in DOMAIN played : played[j][2]}}

\* the devices a test playback failed on
PlayedFailed == {played[k][1] : k \in {j \in DOMAIN played : ~played[j][2]}}

\* the test playback on the resolved output device has failed
VerifyFailed == fn = "detect_reachy_audio" /\ played # <<>> /\ ~played[1][2]

\* C11: when the test playback on the resolved output device fails, the
\* candidates are the other devices with outputs whose lowercased name holds
\* "reachy", tried in catalog order; the returned output index is the first
\* candidate whose playback succeeds, never the original, and None if every
\* candidate fails or there is none; the function returns normally and
\* returns the resolved input index unchanged.
C11_FallbackToFirstWorkingAlternate ==
  VerifyFailed =>
    /\ pc # "raised"
    /\ pc = "done" =>
         LET failed == played[1][1]
             cands == FallbackCandidates(devices, failed)
             good == cands \cap PlayedOk
         IN /\ ret[1] = input_idx
            /\ hotplugs = 0 => ret[1] = find_reachy_device(devices, "input")
            /\ TriedAfterFirst \subseteq cands
            /\ \A k \in 2..(Len(played) - 1) : played[k][1] < played[k + 1][1] /\ ~played[k][2]
            /\ \A i \in TriedAfterFirst : \A j \in cands : j < i => j \in TriedAfterFirst
            /\ good = {} => ret[2] = None /\ TriedAfterFirst = cands
            /\ good # {} => ret[2] = Some(Least(good)) /\ Least(good) # failed

\* C11 witness: the resolved device 0 and the alternate 1 fail, the
\* alternate 2 plays and is returned.
C11_Witness ==
  /\ Returned("detect_reachy_audio")
  /\ played = << <<0, FALSE>>, <<1, FALSE>>, <<2, TRUE>> >>
  /\ ret[2] = Some(2)

\* what the result of the detection must be
VerifiedOrNone ==
  Returned("detect_reachy_audio") =>
    /\ ret[2] = None \/ Val(ret[2]) \in PlayedOk
    /\ ret[2] # None => Val(ret[2]) \notin PlayedFailed

\* C20: the output index detect_reachy_audio returns is None or the index of
\* a device a test playback succeeded on during this run, never an index
\* whose test playback failed; and when no output device is resolved, no
\* test playback is made at all.
C20_ReturnedOutputWasVerified ==
  /\ []VerifiedOrNone
  /\ [][(fn = "detect_reachy_audio" /\ output_idx = None /\ played = <<>>) => played' = <<>>]_vars

\* C20 witness: the output device was resolved, its test playback failed,
\* no alternate played, and None is returned.
C20_Witness ==
  /\ Returned("detect_reachy_audio")
  /\ Len(played) = 2 /\ PlayedOk = {}
  /\ ret[2] = None

\* idx is within the list devs and the device there matches a keyword of
\* the direction
DenotesMatch(idx, devs, dir) ==
  /\ Val(idx) < Len(devs)
  /\ \E k \in DOMAIN direction_keywords(dir) :
       device_matches(devs[Val(idx) + 1], dir, direction_keywords(dir)[k])

\* C22: during a detection, whatever changes the system's device list
\* goes through, an index find_reachy_device returned is within the list
\* detect_reachy_audio holds, and the device it denotes there is one that
\* matches a keyword of its direction.
C22_IndexDenotesMatchInSnapshot ==
  fn = "detect_reachy_audio" =>
    /\ (pc \in {"find_output", "report_input", "report_output"} /\ input_idx # None)
          => DenotesMatch(input_idx, devices, "input")
    /\ (pc \in {"report_input", "report_output", "verify"} /\ output_idx # None)
          => DenotesMatch(output_idx, devices, "output")

\* ---------------------------------------------------------------------
\* test_microphone.  The clip is an array of int16 samples; numpy computes
\* in the width of the array.
\* ---------------------------------------------------------------------
MaxSamples == 2

SampleValues == {-32768, -5000, -1000, -100, -99, 0, 99, 100, 999, 1000, 5000, 32767}

Clips == UNION {[1..k -> SampleValues] : k \in 1..MaxSamples}

\* the int16 an integer wraps to
int16(x) == ((x + 32768) % 65536) - 32768

\* np.abs of one int16 sample
np_abs(x) == int16(IF x < 0 THEN -x ELSE x)

\* np.max of an array
np_max(a) == CHOOSE x \in Range(a) : \A y \in Range(a) : y <= x

\* peak = int(np.max(np.abs(audio)))
peak_level(a) == np_max([i \in DOMAIN a |-> np_abs(a[i])])

\* the message test_microphone prints for a peak
mic_verdict(peak) ==
  IF peak < 100 THEN "silent"
  ELSE IF peak < 1000 THEN "weak"
  ELSE "working"

InitMic ==
  /\ pc = "call" /\ fn = "test_microphone" /\ ret = None
  /\ audio \in Clips
  /\ backends \in {[AllBackends EXCEPT !.sd = b] : b \in {"ok", "missing", "broken"}}
  /\ voice = None /\ engines = 0 /\ tmp_file = FALSE /\ events = <<>>
  /\ raw = <<>> /\ NoArgs
  /\ DetectIdle /\ RunIdle /\ OtherIdle

\* test_microphone(input_device): the recording gives the clip or raises;
\* events holds the message printed
TestMicrophone ==
  /\ pc = "call" /\ fn = "test_microphone"
  /\ \E recorded \in (IF backends.sd = "ok" THEN BOOLEAN ELSE {FALSE}) :
       IF recorded
       THEN /\ events' = <<mic_verdict(peak_level(audio))>>
            /\ ret' = (mic_verdict(peak_level(audio)) # "silent")
       ELSE /\ events' = <<"error">>
            /\ ret' = FALSE
  /\ pc' = "done"
  /\ UNCHANGED <<fn, raw, option_keywords, accepted_answers, devices, direction>>
  /\ UNCHANGED <<detectVars, audio, voice, engines, tmp_file, backends, otherVars, runVars>>

SpecMic == InitMic /\ [][TestMicrophone]_vars

\* the absolute value of an integer
Magnitude(x) == IF x < 0 THEN -x ELSE x

\* the peak absolute amplitude of a clip
PeakAmplitude(a) == CHOOSE p \in {Magnitude(a[i]) : i \in DOMAIN a} : \A i \in DOMAIN a : Magnitude(a[i]) <= p

\* C16: for every clip of signed 16-bit samples the verdict follows from the
\* peak absolute amplitude: below 100 silent (test_microphone returns False),
\* from 100 below 1000 weak, from 1000 working (both return True); an
\* all-zero clip is silent and a clip of peak amplitude 5000 is working.
C16_VerdictFromPeakAmplitude ==
  (Returned("test_microphone") /\ events # <<"error">>) =>
    /\ PeakAmplitude(audio) < 100 => events = <<"silent">> /\ ret = FALSE
    /\ (100 <= PeakAmplitude(audio) /\ PeakAmplitude(audio) < 1000) => events = <<"weak">> /\ ret = TRUE
    /\ PeakAmplitude(audio) >= 1000 => events = <<"working">> /\ ret = TRUE

\* ---------------------------------------------------------------------
\* An OfflineVoiceIO session: calls of listen() and speak().  events is the
\* list of what the session did, as <<what, detail>> pairs; a call starts
\* with <<"call", name>>.  Every call into pyttsx3, tempfile, wave and
\* sounddevice can raise.
\* ---------------------------------------------------------------------
MaxCalls == 2

\* the attributes __init__ sets
NewSession(input_device, output_device) ==
  [sample_rate |-> 16000, record_seconds |-> 5,
   input_device |-> input_device, output_device |-> output_device,
   model |-> "vosk.Model", tts_rate |-> 165]

DeviceChoices == {None, Some(1)}

SpeakTexts == {<<"H","i">>}

\* what json.loads(rec.Result()) can be: no "text" field, or a text
RecognizerResults == {None, Some(<<>>), Some(<<"o","n","e">>), Some(<<" ","o","n","e"," ">>)}

\* the number of calls begun
Calls(ev) == Cardinality({k \in DOMAIN ev : ev[k][1] = "call"})

\* what the call under way, or the last call, has done
CurrentCall(ev) ==
  LET starts == {k \in DOMAIN ev : ev[k][1] = "call"}
  IN IF starts = {} THEN <<>>
     ELSE SubSeq(ev, CHOOSE k \in starts : \A j \in starts : j <= k, Len(ev))

Did(ev, what) == \E k \in DOMAIN ev : ev[k][1] = what

\* how many times the events ev hold what
Count(ev, what) == Cardinality({k \in DOMAIN ev : ev[k][1] = what})

\* the call under way has an engine it did not stop, still bound to its
\* local name "engine"
HoldsEngine(ev) ==
  Count(CurrentCall(ev), "engine_init") > Count(CurrentCall(ev), "engine_stop")

\* no call is under way
Ready == pc \in {"idle", "done", "raised"}

\* mutant: the text is returned as the recognizer gave it
listen_text_NoStrip(result) == IF result = None THEN <<>> ELSE Val(result)

\* text = result.get("text", "").strip()
listen_text(result) == IF result = None THEN <<>> ELSE strip(Val(result))

\* mutant: after a failure the session gives up its output device
session_after_explicit_failure_ClearsDevice(v) == [v EXCEPT !.output_device = None]

\* the except clause of speak() only prints
session_after_explicit_failure(v) == v

InitVoice ==
  /\ pc = "idle" /\ fn = "OfflineVoiceIO" /\ ret = None
  /\ voice \in {Some(NewSession(i, o)) : i \in DeviceChoices, o \in DeviceChoices}
  /\ audio = <<>> /\ engines = 0 /\ tmp_file = FALSE /\ events = <<>>
  /\ backends = AllBackends
  /\ raw = <<>> /\ NoArgs
  /\ DetectIdle /\ RunIdle /\ OtherIdle

\* voice.listen(): one recording, one recognizer, the text of its result
Listen ==
  /\ Ready /\ voice # None /\ Calls(events) < MaxCalls
  /\ fn' = "listen"
  /\ \E outcome \in {"rec_failed", "recognizer_failed", "ok"} :
       IF outcome = "ok"
       THEN \E result \in RecognizerResults :
              /\ events' = events \o
                   << <<"call", "listen">>,
                      <<"rec", [frames |-> Val(voice).sample_rate * Val(voice).record_seconds,
                                device |-> Val(voice).input_device]>>,
                      <<"recognizer", Val(voice).model>>,
                      <<"result", result>> >>
              /\ ret' = listen_text(result)
              /\ pc' = "done"
       ELSE /\ events' = events \o
                 (IF outcome = "rec_failed" THEN << <<"call", "listen">> >>
                  ELSE << <<"call", "listen">>,
                          <<"rec", [frames |-> Val(voice).sample_rate * Val(voice).record_seconds,
                                    device |-> Val(voice).input_device]>> >>)
            /\ ret' = None
            /\ pc' = "raised"
  /\ UNCHANGED <<raw, option_keywords, accepted_answers, devices, direction>>
  /\ UNCHANGED <<detectVars, audio, voice, engines, tmp_file, backends, otherVars, runVars>>

\* voice.speak(text) is called
Speak ==
  /\ Ready /\ voice # None /\ Calls(events) < MaxCalls
  /\ fn' = "speak" /\ raw' \in SpeakTexts /\ ret' = None
  /\ events' = Append(events, <<"call", "speak">>)
  /\ pc' = "speak_init"
  /\ UNCHANGED <<option_keywords, accepted_answers, devices, direction>>
  /\ UNCHANGED <<detectVars, audio, voice, engines, tmp_file, backends, otherVars, runVars>>

\* engine = pyttsx3.init(); engine.setProperty("rate", self.tts_rate)
SpeakInit ==
  /\ pc = "speak_init"
  /\ \E outcome \in {"init_failed", "configure_failed", "ok"} :
       IF outcome = "init_failed"
       THEN /\ pc' = "raised"
            /\ UNCHANGED <<engines, events>>
       ELSE /\ engines' = engines + 1
            /\ events' = Append(events, <<"engine_init", None>>)
            /\ pc' = IF outcome = "configure_failed" THEN "raised"
                     ELSE IF Val(voice).output_device # None THEN "speak_tmp"
                     ELSE "speak_default"
  /\ UNCHANGED <<fn, raw, option_keywords, accepted_answers, devices, direction, ret>>
  /\ UNCHANGED <<detectVars, audio, voice, tmp_file, backends, otherVars, runVars>>

\* with tempfile.NamedTemporaryFile(suffix=".wav", delete=False) as tmp
SpeakTmp ==
  /\ pc = "speak_tmp"
  /\ \E ok \in BOOLEAN :
       IF ok
       THEN /\ tmp_file' = TRUE
            /\ events' = Append(events, <<"tmp_created", None>>)
            /\ pc' = "speak_render"
       ELSE /\ pc' = "raised"
            /\ UNCHANGED <<tmp_file, events>>
  /\ UNCHANGED <<fn, raw, option_keywords, accepted_answers, devices, direction, ret>>
  /\ UNCHANGED <<detectVars, audio, voice, engines, backends, otherVars, runVars>>

\* mutant: the file is removed at the end of the try body, not in a finally
after_explicit_path_NoFinally(failed) == IF failed THEN "speak_default" ELSE "speak_unlink"

\* finally: the clean-up runs after the try body and after the except clause
after_explicit_path(failed) == "speak_unlink"

\* engine.save_to_file(text, tmp_path); engine.runAndWait(); engine.stop(); del engine
SpeakRender ==
  /\ pc = "speak_render"
  /\ \E ok \in BOOLEAN :
       IF ok
       THEN /\ engines' = engines - 1
            /\ events' = Append(events, <<"engine_stop", None>>)
            /\ pc' = "speak_play"
            /\ voice' = voice
       ELSE /\ events' = Append(events, <<"explicit_failed", None>>)
            /\ pc' = after_explicit_path(TRUE)
            /\ voice' = Some(session_after_explicit_failure(Val(voice)))
            /\ UNCHANGED engines
  /\ UNCHANGED <<fn, raw, option_keywords, accepted_answers, devices, direction, ret>>
  /\ UNCHANGED <<detectVars, audio, tmp_file, backends, otherVars, runVars>>

\* self._play_wav(tmp_path); return
SpeakPlay ==
  /\ pc = "speak_play"
  /\ \E ok \in BOOLEAN :
       IF ok
       THEN /\ events' = Append(events, <<"play_device", Val(voice).output_device>>)
            /\ voice' = voice
            /\ pc' = after_explicit_path(FALSE)
       ELSE /\ events' = Append(events, <<"explicit_failed", None>>)
            /\ voice' = Some(session_after_explicit_failure(Val(voice)))
            /\ pc' = after_explicit_path(TRUE)
  /\ UNCHANGED <<fn, raw, option_keywords, accepted_answers, devices, direction, ret>>
  /\ UNCHANGED <<detectVars, audio, engines, tmp_file, backends, otherVars, runVars>>

\* finally: try: os.unlink(tmp_path) except OSError: pass
SpeakUnlink ==
  /\ pc = "speak_unlink"
  /\ \E ok \in BOOLEAN :
       IF ok
       THEN /\ tmp_file' = FALSE
            /\ events' = Append(events, <<"tmp_deleted", None>>)
       ELSE /\ tmp_file' = tmp_file
            /\ events' = Append(events, <<"unlink_failed", None>>)
  /\ pc' = IF Did(CurrentCall(events), "explicit_failed") THEN "speak_default" ELSE "done"
  /\ UNCHANGED <<fn, raw, option_keywords, accepted_answers, devices, direction, ret>>
  /\ UNCHANGED <<detectVars, audio, voice, engines, backends, otherVars, runVars>>

\* try: engine = pyttsx3.init(); ...; engine.say(text); engine.runAndWait();
\*      engine.stop(); del engine   except Exception: pass
\* When the call still holds an engine, pyttsx3.init() gives a new engine or
\* the one held again (the library may keep its engines in a cache).
SpeakDefault ==
  /\ pc = "speak_default"
  /\ \E outcome \in {"init_failed", "say_failed", "stop_failed", "ok"} :
     \E cached \in (IF HoldsEngine(events) THEN BOOLEAN ELSE {FALSE}) :
       LET got == IF cached THEN <<"engine_cached", None>> ELSE <<"engine_init", None>>
           made == IF cached THEN 0 ELSE 1
       IN /\ events' = events \o
               (IF outcome = "init_failed" THEN << <<"default_attempt", None>> >>
                ELSE IF outcome = "say_failed"
                THEN << <<"default_attempt", None>>, got >>
                ELSE IF outcome = "stop_failed"
                THEN << <<"default_attempt", None>>, got, <<"play_default", None>> >>
                ELSE << <<"default_attempt", None>>, got,
                        <<"play_default", None>>, <<"engine_stop", None>> >>)
          /\ engines' = IF outcome = "init_failed" THEN engines
                        ELSE IF outcome = "ok" THEN engines + made - 1
                        ELSE engines + made
  /\ pc' = "done"
  /\ UNCHANGED <<fn, raw, option_keywords, accepted_answers, devices, direction, ret>>
  /\ UNCHANGED <<detectVars, audio, voice, tmp_file, backends, otherVars, runVars>>

NextVoice ==
  \/ Listen \/ Speak
  \/ SpeakInit \/ SpeakTmp \/ SpeakRender \/ SpeakPlay \/ SpeakUnlink \/ SpeakDefault

SpecVoice == InitVoice /\ [][NextVoice]_vars

\* the call of f that has just ended, by return or by exception
Ended(f) == fn = f /\ pc \in {"done", "raised"}

\* C14: at the end of a speak() call, the default-output path was entered
\* exactly when the session has no explicit output device or the
\* explicit-device path raised; and when the explicit-device path played the
\* text, it was played once, on the session's device, and the default path
\* was not entered.
C14_DefaultIffNoDeviceOrExplicitFailed ==
  Ended("speak") =>
    LET cur == CurrentCall(events)
    IN /\ Did(cur, "default_attempt")
            <=> (Val(voice).output_device = None \/ Did(cur, "explicit_failed"))
       /\ Did(cur, "play_device") =>
            /\ Count(cur, "play_device") = 1
            /\ \A k \in DOMAIN cur :
                 cur[k][1] = "play_device" => cur[k][2] = Val(voice).output_device
            /\ ~Did(cur, "default_attempt")
            /\ ~Did(cur, "play_default")

\* C21: between calls the session has no synthesis engine that was created
\* and not stopped: every engine a speak() call created is stopped when the
\* call returns.
C21_NoEngineLeftAfterSpeak == pc \in {"idle", "done"} => engines = 0

\* C25 as stated: when a speak() call that created the temporary WAV file
\* has ended, the file does not exist.
C25_TempFileGoneAtReturn ==
  (Ended("speak") /\ Did(CurrentCall(events), "tmp_created")) => tmp_file = FALSE

\* C25 amended: a speak() call that created the temporary WAV file returns
\* normally after exactly one attempt to delete it, made after the rendering
\* and playback and before any default-output attempt; the file is gone
\* unless that attempt failed.
C25_TempFileDeletedOnceUnlessUnlinkFails ==
  (Ended("speak") /\ Did(CurrentCall(events), "tmp_created")) =>
    LET cur == CurrentCall(events) IN
    /\ pc = "done"
    /\ Count(cur, "tmp_deleted") + Count(cur, "unlink_failed") = 1
    /\ tmp_file = Did(cur, "unlink_failed")
    /\ \A k \in DOMAIN cur : \A j \in DOMAIN cur :
         (cur[k][1] \in {"tmp_deleted", "unlink_failed"} /\ cur[j][1] = "default_attempt") => k < j

\* the explicit-device path failed, the file was deleted, and the text was
\* played on the default output
C25_Witness ==
  /\ Returned("speak") /\ tmp_file = FALSE
  /\ Did(CurrentCall(events), "explicit_failed")
  /\ Did(CurrentCall(events), "tmp_deleted")
  /\ Did(CurrentCall(events), "play_default")

\* C15: a speak() call never ends by an exception.
C15_SpeakNeverRaises == fn = "speak" => pc # "raised"

\* C17: no step of a constructed session changes its input_device or its
\* output_device.
C17_DevicesNeverChange ==
  [][voice # None =>
       /\ voice' # None
       /\ Val(voice').input_device = Val(voice).input_device
       /\ Val(voice').output_device = Val(voice).output_device]_vars

\* a speak() call fell back to the default output and a later speak() call
\* played on the explicit device
C17_Witness ==
  /\ Returned("speak") /\ Val(voice).output_device = Some(1)
  /\ \E k \in DOMAIN events : \E j \in DOMAIN events :
       /\ k < j
       /\ events[k][1] = "explicit_failed"
       /\ events[j][1] = "play_device" /\ events[j][2] = Some(1)
  /\ Did(events, "play_default")

\* t is s without its leading and trailing whitespace
Stripped(s, t) ==
  /\ t = <<>> \/ (~isspace(t[1]) /\ ~isspace(t[Len(t)]))
  /\ \E i \in 1..(Len(s) + 1) : \E j \in 0..Len(s) :
       /\ t = SubSeq(s, i, j)
       /\ \A k \in DOMAIN s : (k < i \/ k > j) => isspace(s[k])

\* C19: a listen() call that returned made one recording, of
\* sample_rate * record_seconds frames on the session's input device, built
\* one recognizer on the session's model, and returned the text of its result
\* without the surrounding whitespace, or the empty string when the result
\* has no text.
C19_ListenOneRecordingStrippedText ==
  Returned("listen") =>
    LET cur == CurrentCall(events)
    IN /\ Count(cur, "rec") = 1
       /\ \A k \in DOMAIN cur : cur[k][1] = "rec" =>
            /\ cur[k][2].frames = Val(voice).sample_rate * Val(voice).record_seconds
            /\ cur[k][2].device = Val(voice).input_device
       /\ Count(cur, "recognizer") = 1
       /\ \A k \in DOMAIN cur : cur[k][1] = "recognizer" => cur[k][2] = Val(voice).model
       /\ \A k \in DOMAIN cur : cur[k][1] = "result" =>
            IF cur[k][2] = None THEN ret = <<>> ELSE Stripped(Val(cur[k][2]), ret)

C19_Witness ==
  /\ Returned("listen")
  /\ Did(CurrentCall(events), "rec")
  /\ \E k \in DOMAIN events : events[k] = <<"result", Some(<<" ","o","n","e"," ">>)>>
  /\ ret = <<"o","n","e">>
  /\ Calls(events) = 1

\* ---------------------------------------------------------------------
\* run(): start-up, the main menu loop and the lesson functions it calls.
\* fn is the function being executed and pc the place in it; the steps of
\* get_user_text keep the fn of their caller.  events is what has happened
\* since the last return of get_user_text, as <<what, detail>> pairs.  The
\* robot is taken to be connected and the device list to stay as it is
\* during start-up.
\* ---------------------------------------------------------------------
LEVELS ==
  <<
   [title |-> "Level 1: The Foundation (Chemistry & Density)",
    goal |-> "Understand that the Sun is a pressurized ball of gas, not a solid object.",
    physics |-> "The Sun is a plasma. On Earth we have solids, liquids, and gases. Plasma is the 'fourth state' -- a gas so hot that electrons are stripped from atoms.",
    reachy_asks |-> "Is the Sun a solid rock like Earth, or a giant cloud of glowing soup?",
    correct_answer |-> "Glowing soup (plasma).",
    accepted_answers |-> <<<<"p","l","a","s","m","a">>, <<"g","l","o","w","i","n","g"," ","s","o","u","p">>, <<"h","o","t"," ","g","a","s">>, <<"i","o","n","i","z","e","d"," ","g","a","s">>, <<"s","o","u","p">>, <<"g","a","s">>>>,
    motion_id |-> "gas_spin",
    extra_facts |-> <<"Plasma is made of charged particles (ions and free electrons).">>],
   [title |-> "Level 2: The Core (Nuclear Physics)",
    goal |-> "Explain the strong nuclear force and fusion.",
    physics |-> "At the core, gravity creates immense pressure. This overcomes the electrostatic repulsion between hydrogen protons, forcing them to fuse.",
    reachy_asks |-> "The Sun is heavy! If I squeeze two tiny pieces of Hydrogen together really hard, do they bounce away or become one big piece?",
    correct_answer |-> "They become one (nuclear fusion).",
    accepted_answers |-> <<<<"f","u","s","e">>, <<"b","e","c","o","m","e"," ","o","n","e">>, <<"n","u","c","l","e","a","r"," ","f","u","s","i","o","n">>, <<"t","h","e","y"," ","c","o","m","b","i","n","e">>, <<"c","o","m","b","i","n","e">>, <<"b","i","g"," ","p","i","e","c","e">>, <<"o","n","e"," ","p","i","e","c","e">>>>,
    motion_id |-> "fusion_snap",
    extra_facts |-> <<"Fusion reaction: 4 hydrogen nuclei become 1 helium nucleus plus energy.">>],
   [title |-> "Level 3: The Radiative Zone (Photon Physics)",
    goal |-> "Explain how energy moves through matter.",
    physics |-> "Light particles (photons) try to leave the core but keep hitting dense atoms. This is a 'random walk.' It can take a photon 100,000 plus years to move just a few miles.",
    reachy_asks |-> "Light is fast, but the Sun is crowded! Does light move straight or zig-zag?",
    correct_answer |-> "A crazy zig-zag (random walk).",
    accepted_answers |-> <<<<"z","i","g"," ","z","a","g">>, <<"z","i","g","-","z","a","g">>, <<"z","i","g","z","a","g">>, <<"z","i","g">>, <<"z","a","g">>, <<"b","o","u","n","c","e"," ","a","r","o","u","n","d">>, <<"c","r","a","z","y">>>>,
    motion_id |-> "random_walk",
    extra_facts |-> <<"Photons are constantly absorbed and re-emitted.">>],
   [title |-> "Level 4: The Convection Zone (Thermodynamics)",
    goal |-> "Explain heat transfer through fluid movement.",
    physics |-> "Closer to the surface, the Sun acts like a lava lamp. Hot plasma rises, cools down, and sinks. This is convection.",
    reachy_asks |-> "Like bubbles in boiling pasta, does hot Sun-stuff move up or down?",
    correct_answer |-> "Both. It rises, cools, and sinks.",
    accepted_answers |-> <<<<"b","o","t","h">>, <<"u","p"," ","a","n","d"," ","d","o","w","n">>, <<"r","i","s","e"," ","a","n","d"," ","s","i","n","k">>, <<"u","p"," ","t","h","e","n"," ","d","o","w","n">>, <<"d","o","w","n"," ","a","n","d"," ","u","p">>, <<"s","i","n","k"," ","a","n","d"," ","r","i","s","e">>>>,
    motion_id |-> "convection_wave",
    extra_facts |-> <<"Convection is a heat engine driven by temperature differences.">>],
   [title |-> "Level 5: The Atmosphere & Magnetism (Electromagnetism)",
    goal |-> "Explain why the Sun has 'weather' at all.",
    physics |-> "Because the Sun is plasma (charged), its movement creates magnetic fields. The Sun rotates faster at the equator than at the poles, twisting magnetic lines like a rope.",
    reachy_asks |-> "The Sun acts like a giant magnet. What happens to a rope if you twist it?",
    correct_answer |-> "It knots up and can snap (sunspots and flares).",
    accepted_answers |-> <<<<"k","n","o","t">>, <<"s","n","a","p">>, <<"t","w","i","s","t"," ","t","o","o"," ","m","u","c","h">>, <<"t","a","n","g","l","e">>>>,
    motion_id |-> "magnetic_twist",
    extra_facts |-> <<"Sunspots are cooler, darker regions with strong magnetic fields.">>],
   [title |-> "Level 6: The Solar Wind (Plasma Dynamics)",
    goal |-> "Explain how the Sun's 'weather' reaches Earth.",
    physics |-> "The corona is so hot that particles escape the Sun's gravity. This creates the heliosphere, the bubble of space the Sun controls.",
    reachy_asks |-> "Does the Sun's wind blow cold like winter, or is it made of electric fire?",
    correct_answer |-> "Electric particles (a plasma wind).",
    accepted_answers |-> <<<<"e","l","e","c","t","r","i","c"," ","p","a","r","t","i","c","l","e","s">>, <<"c","h","a","r","g","e","d"," ","p","a","r","t","i","c","l","e","s">>, <<"p","l","a","s","m","a"," ","w","i","n","d">>, <<"e","l","e","c","t","r","i","c"," ","f","i","r","e">>, <<"f","i","r","e">>, <<"e","l","e","c","t","r","i","c">>>>,
    motion_id |-> "solar_wind_shiver",
    extra_facts |-> <<"Solar wind can trigger auroras when it hits Earth's magnetosphere.">>]
  >>

SUGGESTED_TOPICS == <<"plasma", "fusion", "sunspots", "solar wind", "magnetic fields", "convection", "Sun size", "Earth size", "distance to Sun", "Sun temperature", "light travel time">>

\* the device lists run() is started on
RunCatalogs ==
  { <<>>,
    << [name |-> ReachyMiniAudio, max_input_channels |-> 2, max_output_channels |-> 2] >>,
    << [name |-> RealtekHDAudio, max_input_channels |-> 2, max_output_channels |-> 2],
       [name |-> ReachyMiniAudio, max_input_channels |-> 2, max_output_channels |-> 2],
       [name |-> OutputReachyMiniAudio, max_input_channels |-> 0, max_output_channels |-> 2] >> }

\* all there, or the audio module missing or broken, or the recognizer
\* module missing
RunBackends ==
  {AllBackends} \cup {[AllBackends EXCEPT !.sd = b] : b \in {"missing", "broken"}}
    \cup {[AllBackends EXCEPT !.vosk = FALSE]}

\* every state of the modules and the model data
AnyBackends ==
  [sd : {"ok", "missing", "broken"}, vosk : BOOLEAN, pyttsx3 : BOOLEAN, model_dir : BOOLEAN]

\* the lines the user types at input()
TypedLines ==
  {<<>>, <<" ","4"," ">>, <<"1">>, <<"2">>, <<"3">>, <<"f","u","s","e">>, <<"h","o","w"," ","o","l","d"," ","i","s"," ","t","h","e"," ","s","u","n">>,
   <<"U+00B2">>, <<"t","o","p","i","c","s">>, <<"M","e","n","u","!">>, <<"?","!">>}

\* the texts voice.listen() returns
HeardTexts == {<<>>, <<"f","o","u","r">>, <<"t","h","r","e","e">>}

\* the <<input, output>> pairs detect_reachy_audio() can return on a device
\* list: the output found, one of the other Reachy outputs when its test
\* playback failed, or None when they all failed
detect_outcomes(devs) ==
  LET i == find_reachy_device(devs, "input")
      o == find_reachy_device(devs, "output")
      others == {k \in 0..(Len(devs) - 1) : fallback_candidate(devs[k + 1], k, o)}
  IN IF o = None THEN {<<i, None>>}
     ELSE {<<i, o>>} \cup {<<i, after_fallback_scan(TRUE, Some(k))>> : k \in others}
                     \cup {<<i, after_fallback_scan(FALSE, o)>>}

\* how OfflineVoiceIO(...) can end: the four checks of __init__ in order,
\* then vosk.Model() and the synthesis warm-up, each of which can raise
construction_outcomes(b) ==
  IF ~b.vosk THEN {"RuntimeError: vosk"}
  ELSE IF ~b.pyttsx3 THEN {"RuntimeError: pyttsx3"}
  ELSE IF b.sd = "missing" THEN {"RuntimeError: sounddevice"}
  ELSE IF ~b.model_dir THEN {"RuntimeError: model"}
  ELSE {"ok", "Exception: vosk.Model", "Exception: warm-up"}

RuntimeErrors ==
  {"RuntimeError: vosk", "RuntimeError: pyttsx3", "RuntimeError: sounddevice", "RuntimeError: model"}

\* mutant: only the errors __init__ raises itself are caught
caught_by_build_voice_RuntimeErrorOnly(exc) == exc \in RuntimeErrors

\* except Exception as exc
caught_by_build_voice(exc) == TRUE

\* adapter.say(text): the text is printed, and spoken when there is a
\* session; an exception of speak() is caught
say(v, text) ==
  IF v # None THEN << <<"print", text>>, <<"speak", text>> >>
  ELSE << <<"print", text>> >>

RECURSIVE say_all(_, _)
\* adapter.say of each text in turn
say_all(v, texts) ==
  IF texts = <<>> THEN <<>> ELSE say(v, Head(texts)) \o say_all(v, Tail(texts))

\* the call get_user_text(voice, adapter, voice_prompt=prompt, ...) begins
get_user_text(prompt) == << <<"get_user_text", prompt>> >>

\* the voice_prompt of the call of get_user_text under way, or of the last one
voice_prompt(ev) ==
  LET calls == {k \in DOMAIN ev : ev[k][1] = "get_user_text"}
  IN ev[CHOOSE k \in calls : \A j \in calls : j <= k][2]

\* what the call of get_user_text under way, or the last one, has done
CurrentInput(ev) ==
  LET calls == {k \in DOMAIN ev : ev[k][1] = "get_user_text"}
  IN IF calls = {} THEN <<>>
     ELSE SubSeq(ev, CHOOSE k \in calls : \A j \in calls : j <= k, Len(ev))

InitRun ==
  /\ \/ /\ fn = "run" /\ pc = "detect"
        /\ backends \in RunBackends
        /\ sys_devices \in RunCatalogs
        /\ input_idx = None /\ output_idx = None
     \/ /\ fn = "build_voice" /\ pc = "build_voice"
        /\ backends \in AnyBackends
        /\ sys_devices = <<>>
        /\ input_idx \in DeviceChoices /\ output_idx \in DeviceChoices
  /\ scan_i = 0 /\ alt_found = FALSE /\ played = <<>> /\ hotplugs = 0
  /\ VoiceIdle /\ RunIdle /\ OtherIdle
  /\ raw = <<>> /\ ret = None /\ NoArgs

\* input_dev, output_dev = detect_reachy_audio(): there is no try around
\* it, and sd.query_devices() raises when sd is None or the query fails
RunDetect ==
  /\ fn = "run" /\ pc = "detect"
  /\ IF backends.sd # "ok"
     THEN /\ pc' = "terminated"
          /\ events' = Append(events, <<"uncaught", "detect_reachy_audio">>)
          /\ UNCHANGED <<input_idx, output_idx>>
     ELSE /\ \E found \in detect_outcomes(sys_devices) :
               input_idx' = found[1] /\ output_idx' = found[2]
          /\ pc' = "test_microphone"
          /\ events' = events
  /\ UNCHANGED <<fn, raw, option_keywords, accepted_answers, devices, direction, ret>>
  /\ UNCHANGED <<sys_devices, scan_i, alt_found, played, hotplugs>>
  /\ UNCHANGED <<audio, voice, engines, tmp_file, backends, otherVars, runVars>>

\* test_microphone(input_dev): its result is not used, its errors are caught
RunTestMicrophone ==
  /\ fn = "run" /\ pc = "test_microphone"
  /\ events' = Append(events, <<"test_microphone", input_idx>>)
  /\ pc' = "build_voice"
  /\ UNCHANGED <<fn, raw, option_keywords, accepted_answers, devices, direction, ret>>
  /\ UNCHANGED <<detectVars, audio, voice, engines, tmp_file, backends, otherVars, runVars>>

\* voice = build_voice(input_device=input_dev, output_device=output_dev)
BuildVoice ==
  /\ pc = "build_voice"
  /\ \E outcome \in construction_outcomes(backends) :
       /\ events' = Append(events, <<"OfflineVoiceIO", outcome>>)
       /\ IF outcome = "ok"
          THEN /\ voice' = Some(NewSession(input_idx, output_idx))
               /\ pc' = IF fn = "run" THEN "connect" ELSE "done"
          ELSE /\ voice' = None
               /\ pc' = IF ~caught_by_build_voice(outcome) THEN "raised"
                        ELSE IF fn = "run" THEN "connect" ELSE "done"
  /\ ret' = IF fn = "build_voice" THEN voice' ELSE ret
  /\ UNCHANGED <<fn, raw, option_keywords, accepted_answers, devices, direction>>
  /\ UNCHANGED <<detectVars, audio, engines, tmp_file, backends, otherVars, runVars>>

\* with ReachyMini() as mini: adapter = ReachyLiteVoiceAdapter(mini, voice);
\* adapter.say("Hello! ...")
RunConnect ==
  /\ fn = "run" /\ pc = "connect"
  /\ events' = events \o say(voice, "Hello! I'm Reachy. Let's explore the Sun, from the core to the solar wind.")
  /\ pc' = "menu"
  /\ UNCHANGED <<fn, raw, option_keywords, accepted_answers, devices, direction, ret>>
  /\ UNCHANGED <<detectVars, audio, voice, engines, tmp_file, backends, otherVars, runVars>>

\* a menu token
Token(c) == Some(<<c>>)

\* program_menu(adapter)
program_menu(v) ==
  say_all(v, << "What would you like to do?",
                "Option 1: Run full lesson, levels 1 through 6.",
                "Option 2: Run a single level.",
                "Option 3: Ask a question.",
                "Option 4: Exit." >>)

\* while True: program_menu(adapter); raw = get_user_text(...)
RunMenu ==
  /\ fn = "run" /\ pc = "menu"
  /\ events' = events \o program_menu(voice)
                 \o get_user_text("Pick a number, or tell me what you'd like to do.")
  /\ choice' = None /\ level' = 0
  /\ pc' = "prompt"
  /\ UNCHANGED <<fn, raw, option_keywords, accepted_answers, devices, direction, ret>>
  /\ UNCHANGED <<detectVars, audio, voice, engines, tmp_file, backends, otherVars>>

\* get_user_text: if voice_prompt and adapter: adapter.say(voice_prompt)
GetUserTextPrompt ==
  /\ pc = "prompt"
  /\ events' = events \o say(voice, voice_prompt(events))
  /\ pc' = "input"
  /\ UNCHANGED <<fn, raw, option_keywords, accepted_answers, devices, direction, ret>>
  /\ UNCHANGED <<detectVars, audio, voice, engines, tmp_file, backends, otherVars, runVars>>

\* mutant: a session listens whatever was typed
after_input_AlwaysListens(typed, v) ==
  IF v # None THEN "listening" ELSE "got_text"

\* if typed: return typed;  if not voice: return "";  else go on to listen
after_input(typed, v) ==
  IF typed # <<>> THEN "got_text"
  ELSE IF v = None THEN "got_text"
  ELSE "listening"

\* get_user_text: typed = input(terminal_prompt).strip() and the two returns
GetUserTextInput ==
  /\ pc = "input"
  /\ \E line \in TypedLines :
       /\ raw' = line
       /\ events' = Append(events, <<"input", line>>)
       /\ pc' = after_input(strip(line), voice)
       /\ ret' = IF after_input(strip(line), voice) = "got_text" THEN strip(line) ELSE ret
  /\ UNCHANGED <<fn, option_keywords, accepted_answers, devices, direction>>
  /\ UNCHANGED <<detectVars, audio, voice, engines, tmp_file, backends, otherVars, runVars>>

\* get_user_text: if adapter: adapter.say("I'm listening.")
GetUserTextListening ==
  /\ pc = "listening"
  /\ events' = events \o say(voice, "I'm listening.")
  /\ pc' = "listen"
  /\ UNCHANGED <<fn, raw, option_keywords, accepted_answers, devices, direction, ret>>
  /\ UNCHANGED <<detectVars, audio, voice, engines, tmp_file, backends, otherVars, runVars>>

\* get_user_text: return voice.listen(), or "" when it raises
GetUserTextListen ==
  /\ pc = "listen"
  /\ \/ /\ events' = Append(events, <<"listen", "raised">>)
        /\ ret' = <<>>
     \/ \E text \in HeardTexts :
          /\ events' = Append(events, <<"listen", "returned">>)
          /\ ret' = text
  /\ pc' = "got_text"
  /\ UNCHANGED <<fn, raw, option_keywords, accepted_answers, devices, direction>>
  /\ UNCHANGED <<detectVars, audio, voice, engines, tmp_file, backends, otherVars, runVars>>

\* the texts select_level says before it asks: "Pick a level:" and
\* f"Level {i}: {lvl.title}" for each level
level_list == << <<"Pick a level:">> >> \o [i \in 1..Len(LEVELS) |-> <<"Level ", i, ": ", LEVELS[i].title>>]

\* run(): choice = parse_menu_choice(raw, MAIN_MENU_KEYWORDS) and the branch
\* taken, up to the next call of get_user_text
RunChoice ==
  /\ fn = "run" /\ pc = "got_text"
  /\ LET c == parse_menu_choice(ret, MAIN_MENU_KEYWORDS) IN
       /\ choice' = c
       /\ IF c = None
          THEN /\ events' = say(voice, "I didn't catch that. Please say a number from 1 to 4, or describe what you'd like to do.")
               /\ fn' = "run" /\ pc' = "menu" /\ level' = 0
          ELSE IF c = Token("1")
          THEN /\ events' = say(voice, "Great! Let's run through all six levels.")
               /\ fn' = "deliver_level" /\ pc' = "deliver" /\ level' = 1
          ELSE IF c = Token("2")
          THEN /\ events' = say_all(voice, level_list) \o get_user_text("Which level would you like?")
               /\ fn' = "select_level" /\ pc' = "prompt" /\ level' = 0
          ELSE IF c = Token("3")
          THEN /\ events' = say_all(voice, << "Ask me anything about the Sun or the solar system!",
                                              "Say 'topics' for suggestions, or 'back' to return to the menu." >>)
                              \o get_user_text("Go ahead, ask me something!")
               /\ fn' = "question_loop" /\ pc' = "prompt" /\ level' = 0
          ELSE IF c = Token("4")
          THEN /\ events' = say(voice, "Thanks for learning with me. See you next time!")
               /\ fn' = "run" /\ pc' = "exited" /\ level' = 0
          ELSE /\ events' = <<>>
               /\ fn' = "run" /\ pc' = "menu" /\ level' = 0
  /\ UNCHANGED <<raw, option_keywords, accepted_answers, devices, direction, ret>>
  /\ UNCHANGED <<detectVars, audio, voice, engines, tmp_file, backends, otherVars>>

\* str.isdigit() of a text of the characters normalize() keeps: the
\* superscript digit is a digit to isdigit()
isdigit(s) == s # <<>> /\ \A k \in DOMAIN s : s[k] \in DigitChars \cup {"U+00B2"}

\* int(s) raises ValueError: of the texts isdigit() accepts, int() converts
\* the decimal ones only
int_raises(s) == \E k \in DOMAIN s : s[k] \notin DigitChars

\* int() of one decimal digit
digit(ch) ==
  CASE ch = "0" -> 0 [] ch = "1" -> 1 [] ch = "2" -> 2 [] ch = "3" -> 3 [] ch = "4" -> 4
    [] ch = "5" -> 5 [] ch = "6" -> 6 [] ch = "7" -> 7 [] ch = "8" -> 8 [] ch = "9" -> 9

RECURSIVE int(_)
\* int() of a decimal text
int(s) == IF s = <<>> THEN 0 ELSE 10 * int(SubSeq(s, 1, Len(s) - 1)) + digit(s[Len(s)])

\* select_level, from the text it was given: choice at idx = int(choice),
\* or None when the function returned before
level_choice(raw_text) ==
  LET c == parse_menu_choice(raw_text, LEVEL_KEYWORDS)
      cleaned == normalize(raw_text)
  IN IF raw_text = <<>> THEN None
     ELSE IF c # None THEN c
     ELSE IF isdigit(cleaned) THEN Some(cleaned) ELSE None

\* select_level is ended by the ValueError of idx = int(choice)
select_level_raises(raw_text) ==
  level_choice(raw_text) # None /\ int_raises(Val(level_choice(raw_text)))

\* select_level, from the text it was given: the number of the level, or None
select_level(raw_text) ==
  LET picked == level_choice(raw_text)
  IN IF picked = None THEN None
     ELSE IF 1 <= int(Val(picked)) /\ int(Val(picked)) <= Len(LEVELS)
          THEN Some(int(Val(picked)))
          ELSE None

\* select_level returns to run(): if level: deliver_level(...) else: say;
\* there is no try around idx = int(choice), nor around the call in run()
SelectLevelReturn ==
  /\ fn = "select_level" /\ pc = "got_text"
  /\ IF select_level_raises(ret)
     THEN /\ level' = 0
          /\ events' = << <<"uncaught", "select_level">> >>
          /\ fn' = "run" /\ pc' = "terminated"
     ELSE IF select_level(ret) # None
     THEN /\ level' = Val(select_level(ret))
          /\ events' = <<>>
          /\ fn' = "deliver_level" /\ pc' = "deliver"
     ELSE /\ level' = 0
          /\ events' = say(voice, "I didn't recognise that level. Let's go back to the menu.")
          /\ fn' = "run" /\ pc' = "menu"
  /\ UNCHANGED <<raw, option_keywords, accepted_answers, devices, direction, ret>>
  /\ UNCHANGED <<detectVars, audio, voice, engines, tmp_file, backends, otherVars, choice>>

\* deliver_level: title, goal, physics; ask_and_answer: the question and the
\* first call of get_user_text
Deliver ==
  /\ fn = "deliver_level" /\ pc = "deliver"
  /\ events' = events
       \o say_all(voice, << LEVELS[level].title, LEVELS[level].goal, LEVELS[level].physics,
                            LEVELS[level].reachy_asks >>)
       \o get_user_text("What do you think?")
  /\ fn' = "ask_and_answer" /\ pc' = "prompt"
  /\ UNCHANGED <<raw, option_keywords, accepted_answers, devices, direction, ret>>
  /\ UNCHANGED <<detectVars, audio, voice, engines, tmp_file, backends, otherVars, runVars>>

\* f"The answer is: {correct}"
the_answer_is(n) == <<"The answer is: ", LEVELS[n].correct_answer>>

\* mutant: a wrong second answer is asked for again
after_answer_RetriesAgain(first, answer, correct) ==
  IF answer = <<>> THEN "reveal" ELSE IF correct THEN "praise" ELSE "retry"

\* ask_and_answer: what follows an answer, the first one or the retry
after_answer(first, answer, correct) ==
  IF first
  THEN IF answer = <<>> THEN "reveal" ELSE IF correct THEN "praise" ELSE "retry"
  ELSE IF answer # <<>> /\ correct THEN "praise" ELSE "reveal"

\* ask_and_answer after a call of get_user_text returned: the closing
\* message, or the second call
AskReturn ==
  /\ fn = "ask_and_answer" /\ pc = "got_text"
  /\ LET then == after_answer(voice_prompt(events) = "What do you think?", ret,
                              is_correct_answer(ret, LEVELS[level].accepted_answers)) IN
     IF then = "retry"
     THEN /\ events' = say(voice, "Not quite. Try one more time.")
                         \o get_user_text("Give it another try.")
          /\ fn' = "ask_and_answer" /\ pc' = "prompt"
     ELSE /\ events' = IF then = "praise"
                       THEN say(voice, "Nice! You got it.")
                       ELSE say(voice, the_answer_is(level))
          /\ fn' = "deliver_level" /\ pc' = "motion"
  /\ UNCHANGED <<raw, option_keywords, accepted_answers, devices, direction, ret>>
  /\ UNCHANGED <<detectVars, audio, voice, engines, tmp_file, backends, otherVars, runVars>>

\* f"Bonus fact: {fact}" for each fact
bonus_facts(n) == [i \in DOMAIN LEVELS[n].extra_facts |-> <<"Bonus fact: ", LEVELS[n].extra_facts[i]>>]

\* mutant: the bonus facts are said before the gesture
gesture_and_facts_FactsFirst(v, n) ==
  say_all(v, bonus_facts(n)) \o << <<"motion", LEVELS[n].motion_id>> >>

\* deliver_level after ask_and_answer returned: adapter.motion(...), then
\* each bonus fact
gesture_and_facts(v, n) ==
  << <<"motion", LEVELS[n].motion_id>> >> \o say_all(v, bonus_facts(n))

\* deliver_level: the motion and the bonus facts; then run(): the next
\* level of the full lesson, or back to the menu
DeliverMotion ==
  /\ fn = "deliver_level" /\ pc = "motion"
  /\ LET done == events \o gesture_and_facts(voice, level) IN
     IF choice = Token("1")
     THEN IF level < Len(LEVELS)
          THEN /\ events' = done \o << <<"wait", "0.5">> >>
               /\ level' = level + 1
               /\ fn' = "deliver_level" /\ pc' = "deliver"
          ELSE /\ events' = done \o << <<"wait", "0.5">> >>
                              \o say(voice, "Great job completing all six levels!")
               /\ level' = 0
               /\ fn' = "run" /\ pc' = "menu"
     ELSE /\ events' = done
          /\ level' = 0
          /\ fn' = "run" /\ pc' = "menu"
  /\ UNCHANGED <<raw, option_keywords, accepted_answers, devices, direction, ret>>
  /\ UNCHANGED <<detectVars, audio, voice, engines, tmp_file, backends, otherVars, choice>>

\* mutant: "menu" is not one of the words that leave the loop
question_kind_MenuStays(question) ==
  IF normalize(question) \in {<<"b","a","c","k">>, <<"e","x","i","t">>, <<"q","u","i","t">>}
  THEN "leave"
  ELSE IF normalize(question) \in {<<"t","o","p","i","c","s">>, <<"h","e","l","p">>}
  THEN "topics"
  ELSE IF question = <<>> THEN "empty"
  ELSE "lookup"

\* question_loop: the three tests on the question, in the order of the code
question_kind(question) ==
  IF normalize(question) \in {<<"b","a","c","k">>, <<"e","x","i","t">>, <<"q","u","i","t">>, <<"m","e","n","u">>}
  THEN "leave"
  ELSE IF normalize(question) \in {<<"t","o","p","i","c","s">>, <<"h","e","l","p">>}
  THEN "topics"
  ELSE IF question = <<>> THEN "empty"
  ELSE "lookup"

\* "I'm not sure about that one. Try asking about: " + ", ".join(SUGGESTED_TOPICS[:5])
not_sure == <<"I'm not sure about that one. Try asking about: ", SubSeq(SUGGESTED_TOPICS, 1, 5)>>

\* "Here are some topics you can ask about: " + ", ".join(SUGGESTED_TOPICS)
topics_list == <<"Here are some topics you can ask about: ", SUGGESTED_TOPICS>>

\* question_loop after get_user_text returned: leave, list the topics,
\* ask again, or answer; then the next call of get_user_text
QuestionReturn ==
  /\ fn = "question_loop" /\ pc = "got_text"
  /\ LET kind == question_kind(ret)
         answer == match_faq(ret) IN
     IF kind = "leave"
     THEN /\ events' = say(voice, "Okay, let's go back to the menu.")
          /\ fn' = "run" /\ pc' = "menu"
     ELSE /\ events' =
               (IF kind = "topics" THEN say(voice, topics_list)
                ELSE IF kind = "empty"
                THEN say(voice, "I didn't hear anything. Try again, or say 'back' to return to the menu.")
                ELSE << <<"match_faq", ret>> >>
                       \o (IF answer # None THEN say(voice, Val(answer))
                           ELSE say(voice, not_sure)))
               \o get_user_text("Any other questions?")
          /\ fn' = "question_loop" /\ pc' = "prompt"
  /\ UNCHANGED <<raw, option_keywords, accepted_answers, devices, direction, ret>>
  /\ UNCHANGED <<detectVars, audio, voice, engines, tmp_file, backends, otherVars, runVars>>

NextRun ==
  \/ RunDetect \/ RunTestMicrophone \/ BuildVoice \/ RunConnect \/ RunMenu
  \/ GetUserTextPrompt \/ GetUserTextInput \/ GetUserTextListening \/ GetUserTextListen
  \/ RunChoice \/ SelectLevelReturn \/ Deliver \/ AskReturn \/ DeliverMotion
  \/ QuestionReturn

SpecRun == InitRun /\ [][NextRun]_vars

\* C12: when the audio I/O module is missing or the device query raises,
\* run() is not ended by an exception, and from the menu on it has no voice
\* session.
C12_RunSurvivesAudioBackendFailure ==
  (fn # "build_voice" /\ backends.sd # "ok") =>
     /\ pc # "terminated"
     /\ pc \notin {"detect", "test_microphone", "build_voice"} => voice = None

\* a module or the model data that __init__ checks for is missing
ConstructionMustFail ==
  ~backends.vosk \/ ~backends.pyttsx3 \/ backends.sd = "missing" \/ ~backends.model_dir

\* the positions inside get_user_text
InGetUserText == pc \in {"prompt", "input", "listening", "listen", "got_text"}

\* C13: build_voice never ends by an exception; when the construction of
\* the session failed it returned None; and while there is no session
\* nothing is spoken, nothing is recorded, and get_user_text returns the
\* typed line, stripped.
C13_NoSessionMeansTextOnly ==
  /\ pc # "raised"
  /\ ConstructionMustFail => voice = None
  /\ \A k \in DOMAIN events :
       (events[k][1] = "OfflineVoiceIO" /\ events[k][2] # "ok") => voice = None
  /\ (fn = "build_voice" /\ pc = "done") => ret = voice
  /\ voice = None =>
       /\ ~Did(events, "speak") /\ ~Did(events, "listen")
       /\ pc \notin {"listening", "listen"}
       /\ pc = "got_text" => ret = strip(raw)

\* the session could not be built, and a call of get_user_text returned the
\* empty typed line after the prompt was printed
C13_Witness ==
  /\ fn = "run" /\ pc = "got_text" /\ voice = None /\ ret = <<>>
  /\ \E k \in DOMAIN events : events[k] = <<"OfflineVoiceIO", "Exception: warm-up">>
  /\ Did(CurrentInput(events), "print")
  /\ Did(CurrentInput(events), "input")

\* the places of the events of kind what in ev
Places(ev, what) == {k \in DOMAIN ev : ev[k][1] = what}

\* C18: in a call of get_user_text the prompt has been said in full when the
\* wait for input begins; a recording is made only after an empty typed
\* line, with a session, and after "I'm listening." has been said; a
\* non-empty typed line is returned stripped with no recording; and when
\* listen() raises the call returns the empty string.
C18_PromptThenInputThenListen ==
  InGetUserText =>
    LET cur == CurrentInput(events)
        said == say(voice, cur[1][2])
        heard == say(voice, "I'm listening.")
        asked == 1 + Len(said)
    IN /\ pc = "prompt" => Len(cur) = 1
       /\ pc # "prompt" => SubSeq(cur, 2, asked) = said
       /\ pc = "input" => Len(cur) = asked
       /\ pc \in {"listening", "listen", "got_text"} =>
            /\ Places(cur, "input") = {asked + 1}
            /\ cur[asked + 1][2] = raw
       /\ pc = "listening" => (Len(cur) = asked + 1 /\ strip(raw) = <<>> /\ voice # None)
       /\ pc = "listen" =>
            /\ strip(raw) = <<>> /\ voice # None
            /\ cur = SubSeq(cur, 1, asked + 1) \o heard
       /\ pc = "got_text" =>
            /\ Did(cur, "listen") =>
                 /\ strip(raw) = <<>> /\ voice # None
                 /\ cur = SubSeq(cur, 1, asked + 1) \o heard \o << cur[Len(cur)] >>
                 /\ cur[Len(cur)][1] = "listen"
                 /\ cur[Len(cur)][2] = "raised" => ret = <<>>
            /\ strip(raw) # <<>> => (ret = strip(raw) /\ ~Did(cur, "listen"))
            /\ ~Did(cur, "listen") => Len(cur) = asked + 1

\* after an empty typed line the session listened and its text was returned
C18_Witness ==
  /\ pc = "got_text" /\ fn = "run" /\ voice # None
  /\ raw = <<>> /\ ret = <<"f","o","u","r">>
  /\ events[Len(events)] = <<"listen", "returned">>
  /\ \E k \in DOMAIN events : events[k] = <<"speak", "I'm listening.">>

\* run() is over after its main loop began: by the break, or by an
\* exception that nothing caught
LeftMainLoop ==
  \/ pc = "exited"
  \/ pc = "terminated" /\ events[Len(events)] # <<"uncaught", "detect_reachy_audio">>

\* one step of the main loop: an input that resolves to nothing is followed
\* by the menu with no level and no question loop, and every return to
\* run() from a lesson, a level or the question loop is to the menu
MainLoopStep ==
  /\ (fn = "run" /\ pc = "got_text" /\ parse_menu_choice(ret, MAIN_MENU_KEYWORDS) = None) =>
       (fn' = "run" /\ pc' = "menu" /\ level' = 0 /\ ~Did(events', "get_user_text"))
  /\ (fn \in {"select_level", "deliver_level", "ask_and_answer", "question_loop"} /\ fn' = "run") =>
       pc' = "menu"

\* C27: the main loop ends only when the input resolved to choice "4"; an
\* input that resolves to nothing delivers no level, enters no question
\* loop and is followed by the menu; after a full lesson, a single level or
\* a question loop control returns to the menu.
C27_MainLoopEndsOnlyOnFour ==
  /\ [](LeftMainLoop => (pc = "exited" /\ choice = Token("4")))
  /\ [][MainLoopStep]_vars

\* the texts printed in ev, in order
Printed(ev) == [k \in 1..Cardinality(Places(ev, "print")) |->
                 ev[CHOOSE p \in Places(ev, "print") :
                      Cardinality({q \in Places(ev, "print") : q <= p}) = k][2]]

\* question_loop goes round again: the next call of get_user_text begins
AsksAgain ==
  /\ fn' = "question_loop" /\ pc' = "prompt"
  /\ events'[Len(events')] = <<"get_user_text", "Any other questions?">>

\* one turn of question_loop on the question get_user_text returned
QuestionTurn ==
  (fn = "question_loop" /\ pc = "got_text") =>
    LET leaves == normalize(ret) \in {<<"b","a","c","k">>, <<"e","x","i","t">>,
                                      <<"q","u","i","t">>, <<"m","e","n","u">>}
        lists == normalize(ret) \in {<<"t","o","p","i","c","s">>, <<"h","e","l","p">>}
        answer == match_faq(ret)
    IN /\ (fn' = "run" /\ pc' = "menu") <=> leaves
       /\ ~leaves => AsksAgain
       /\ ret = <<>> =>
            /\ ~Did(events', "match_faq") /\ AsksAgain
            /\ Printed(events') = <<"I didn't hear anything. Try again, or say 'back' to return to the menu.">>
       /\ lists => (~Did(events', "match_faq") /\ Printed(events') = <<topics_list>>)
       /\ (~leaves /\ ~lists /\ ret # <<>>) =>
            /\ Count(events', "match_faq") = 1
            /\ events'[1] = <<"match_faq", ret>>
            /\ Printed(events') =
                 << IF answer # None THEN Val(answer) ELSE not_sure >>
            /\ voice # None => Count(events', "speak") = 1

\* C28: question_loop returns to the menu if and only if the normalized
\* question is back, exit, quit or menu; an empty question is not looked up
\* and is asked again; topics and help list the topics with no lookup; every
\* other question is looked up once and gets exactly one reply, the FAQ
\* response or the not-sure message.
C28_QuestionLoopTurns == [][QuestionTurn]_vars

\* a question was looked up and answered from the FAQ, and the next question
\* is being asked for
C28_Witness ==
  /\ fn = "question_loop" /\ pc = "prompt"
  /\ ret = <<"h","o","w"," ","o","l","d"," ","i","s"," ","t","h","e"," ","s","u","n">>
  /\ events[1] = <<"match_faq", ret>>
  /\ match_faq(ret) # None /\ events[2] = <<"print", Val(match_faq(ret))>>

\* the round is over: one closing message was said and deliver_level goes on
Closes(message) ==
  /\ fn' = "deliver_level" /\ pc' = "motion"
  /\ Printed(events') = <<message>>
  /\ ~Did(events', "get_user_text")

\* one answer of an ask_and_answer round, the first one or the retry
AskTurn ==
  (fn = "ask_and_answer" /\ pc = "got_text") =>
    LET correct == is_correct_answer(ret, LEVELS[level].accepted_answers)
        retry == voice_prompt(events) = "Give it another try."
    IN /\ voice_prompt(events) \in {"What do you think?", "Give it another try."}
       /\ (~retry /\ ret = <<>>) => Closes(the_answer_is(level))
       /\ (~retry /\ ret # <<>> /\ correct) => Closes("Nice! You got it.")
       /\ (~retry /\ ret # <<>> /\ ~correct) =>
            /\ fn' = "ask_and_answer" /\ pc' = "prompt"
            /\ Printed(events') = <<"Not quite. Try one more time.">>
            /\ Count(events', "get_user_text") = 1
            /\ events'[Len(events')] = <<"get_user_text", "Give it another try.">>
       /\ retry =>
            IF ret # <<>> /\ correct THEN Closes("Nice! You got it.")
            ELSE Closes(the_answer_is(level))

\* a round asks for input only through its two calls of get_user_text, and
\* the second call is made only by the round itself after the first
AskCalls ==
  (fn' = "ask_and_answer" /\ pc' = "prompt") =>
     \/ fn = "deliver_level" /\ voice_prompt(events') = "What do you think?"
     \/ /\ fn = "ask_and_answer" /\ voice_prompt(events) = "What do you think?"
        /\ voice_prompt(events') = "Give it another try."

\* C26: an ask_and_answer round asks for input at most twice and ends with
\* exactly one closing message, "Nice! You got it." or the revealed answer:
\* an empty first answer reveals with no retry, a correct first answer is
\* praised with no retry, a wrong non-empty first answer gets exactly one
\* retry, and the retry is praised only if it is non-empty and correct.
C26_AtMostTwoAnswersOneClosing == [][AskTurn /\ AskCalls]_vars

\* the retry of a round was answered correctly
C26_Witness ==
  /\ fn = "ask_and_answer" /\ pc = "got_text"
  /\ voice_prompt(events) = "Give it another try."
  /\ ret # <<>> /\ is_correct_answer(ret, LEVELS[level].accepted_answers)

\* the kinds of the events of ev, in order
Kinds(ev) == [k \in DOMAIN ev |-> ev[k][1]]

\* while the question/answer round of a level is under way, what was
\* printed last before its first call of get_user_text is the title, the
\* goal, the physics and the question of that level, in that order, and
\* its gesture has not been played
IntroThenRound ==
  (fn = "ask_and_answer" /\ voice_prompt(events) = "What do you think?") =>
    LET asked == CHOOSE k \in DOMAIN events : events[k][1] = "get_user_text"
        intro == Printed(SubSeq(events, 1, asked - 1))
        n == Len(intro)
    IN /\ n >= 4
       /\ SubSeq(intro, n - 3, n) =
            << LEVELS[level].title, LEVELS[level].goal, LEVELS[level].physics,
               LEVELS[level].reachy_asks >>
       /\ \A k \in Places(events, "motion") : k < asked /\ events[k][2] # LEVELS[level].motion_id

\* a gesture is played in this step
MotionPlayed == Count(events', "motion") > Count(events, "motion")

\* the gesture is played by deliver_level when the round has returned and
\* said its one closing message, outside every call of get_user_text, and
\* the bonus facts of the level follow it
GestureStep ==
  MotionPlayed =>
    LET m == Len(events) + 1
        facts == say_all(voice, bonus_facts(level))
    IN /\ fn = "deliver_level" /\ pc = "motion" /\ ~InGetUserText
       /\ Kinds(events) = Kinds(say(voice, "Nice! You got it."))
       /\ Len(events') >= m + Len(facts)
       /\ SubSeq(events', 1, m - 1) = events
       /\ events'[m][1] = "motion" /\ events'[m][2] = LEVELS[level].motion_id
       /\ SubSeq(events', m + 1, m + Len(facts)) = facts
       /\ level' # level

\* the full lesson: it begins at level 1, goes from each level to the next
\* one only by playing that level's gesture, and returns to the menu only
\* from level 6
FullLessonStep ==
  /\ (choice # Token("1") /\ choice' = Token("1")) =>
       (fn' = "deliver_level" /\ pc' = "deliver" /\ level' = 1)
  /\ (choice = Token("1") /\ fn # "run") =>
       /\ level \in 1..Len(LEVELS) /\ choice' = choice
       /\ level' # level =>
            /\ MotionPlayed
            /\ \/ /\ level < Len(LEVELS) /\ level' = level + 1
                  /\ fn' = "deliver_level" /\ pc' = "deliver"
               \/ /\ level = Len(LEVELS) /\ level' = 0
                  /\ fn' = "run" /\ pc' = "menu"
       /\ level' = level => (fn' # "run" /\ pc' # "deliver")

\* C23: in deliver_level the gesture is played only after the
\* question/answer round has returned, with no call of get_user_text under
\* way, and before any bonus fact, following title, goal and physics in that
\* order; the full lesson delivers levels 1 to 6 in table order, each
\* exactly once, and then returns to the menu.
C23_GestureAfterRoundLevelsInOrder ==
  []IntroThenRound /\ [][GestureStep /\ FullLessonStep]_vars

\* the full lesson is over: the gesture and the wait of level 6 are done and
\* the menu is next
C23_Witness ==
  /\ fn = "run" /\ pc = "menu" /\ choice = Token("1") /\ level = 0
  /\ Did(events, "motion") /\ Did(events, "wait")
  /\ \E k \in Places(events, "motion") : events[k][2] = LEVELS[Len(LEVELS)].motion_id

\* ---------------------------------------------------------------------
\* The simulation programs: question_loop
\* ---------------------------------------------------------------------
\* the responses of the simulation programs' FAQ_ENTRIES that are worded
\* differently from the voice program's; U+2014 is the em dash, U+2019 the
\* right single quotation mark, U+00B0 the degree sign
sim_response(i) ==
  CASE i = 10 -> <<"The Sun is huge", "U+2014", "about 1.39 million kilometers wide.">>
    [] i = 13 -> <<"The Sun", "U+2019", "s surface is about 5,500", "U+00B0", "C (10,000", "U+00B0", "F).">>
    [] i = 14 -> <<"The Sun", "U+2019", "s core is about 15 million", "U+00B0", "C.">>
    [] OTHER -> <<FAQ_ENTRIES[i].response>>

\* FAQ_ENTRIES of the simulation programs: the keywords are those of the
\* voice program's table, entry by entry
SIM_FAQ_ENTRIES ==
  [i \in DOMAIN FAQ_ENTRIES |->
     [keywords |-> FAQ_ENTRIES[i].keywords, response |-> sim_response(i)]]

\* match_faq of the simulation programs
sim_match_faq(question) == faq_lookup(SIM_FAQ_ENTRIES, question)

\* adapter.say(text) of the simulation adapter: the text is printed
sim_say(text) == << <<"print", text>> >>

\* the lines typed at "Question (or 'topics'/'back'): "
SimQuestions ==
  {<<>>,
   <<"b","a","c","k">>,
   <<" ","E","X","I","T"," ">>,
   <<"q","u","i","t">>,
   <<"c","o","u","r","s","e">>,
   <<"L","e","s","s","o","n","!">>,
   <<"t","o","p","i","c","s">>,
   <<"h","e","l","p">>,
   <<"h","o","w"," ","o","l","d"," ","i","s"," ","t","h","e"," ","s","u","n">>,
   <<"w","h","a","t"," ","i","s"," ","p","l","a","s","m","a">>,
   <<"h","o","w"," ","h","o","t"," ","i","s"," ","t","h","e"," ","c","o","r","e">>,
   <<"t","e","l","l"," ","m","e"," ","a"," ","j","o","k","e">>,
   <<"w","h","o"," ","a","r","e"," ","y","o","u">>,
   <<"c","h","a","t">>,
   <<"p","i","z","z","a">>,
   <<"?","!">>,
   <<"m","o","o","n">>,
   <<"h","e","l","l","o">>,
   <<"h","o","w"," ","b","i","g"," ","i","s"," ","t","h","e"," ","s","u","n">>,
   <<"h","o","w"," ","h","o","t"," ","i","s"," ","t","h","e"," ","s","u","r","f","a","c","e">>,
   <<"w","h","a","t"," ","a","b","o","u","t"," ","m","a","r","s">>}

\* the lines typed at "Type 'course' or 'chat': "
SimChoices ==
  {<<"c","h","a","t">>,
   <<" ","C","h","a","t"," ">>,
   <<"C","H","A","T">>,
   <<"c","h","a","t","!">>,
   <<"c","o","u","r","s","e">>,
   <<>>,
   <<"n","o">>,
   <<"l","e","s","s","o","n">>}

\* mutant: the off-topic test comes after the lookup, that is never
sim_question_kind_LooksUpInChat(question, off_topic) ==
  IF normalize(question) \in {<<"b","a","c","k">>, <<"e","x","i","t">>, <<"q","u","i","t">>}
  THEN "leave"
  ELSE IF normalize(question) \in {<<"c","o","u","r","s","e">>, <<"l","e","s","s","o","n">>}
  THEN "course"
  ELSE IF normalize(question) \in {<<"t","o","p","i","c","s">>, <<"h","e","l","p">>}
  THEN "topics"
  ELSE "lookup"

\* question_loop: the tests on the question, in the order of the code
sim_question_kind(question, off_topic) ==
  IF normalize(question) \in {<<"b","a","c","k">>, <<"e","x","i","t">>, <<"q","u","i","t">>}
  THEN "leave"
  ELSE IF normalize(question) \in {<<"c","o","u","r","s","e">>, <<"l","e","s","s","o","n">>}
  THEN "course"
  ELSE IF normalize(question) \in {<<"t","o","p","i","c","s">>, <<"h","e","l","p">>}
  THEN "topics"
  ELSE IF off_topic THEN "off_topic"
  ELSE "lookup"

\* "Try: " + ", ".join(SUGGESTED_TOPICS)
sim_topics == <<"Try: ">> \o SUGGESTED_TOPICS

InitSim ==
  /\ fn = "sim_question_loop" /\ pc = "question"
  /\ off_topic_mode = FALSE /\ tts_engine = None
  /\ events = sim_say(<<"Ask me anything about the Sun or the solar system!">>)
  /\ raw = <<>> /\ ret = <<>> /\ NoArgs
  /\ DetectIdle /\ RunIdle /\ backends = AllBackends
  /\ audio = <<>> /\ voice = None /\ engines = 0 /\ tmp_file = FALSE

\* one turn of the loop: question = input(...).strip() and the branch taken,
\* up to the next input()
SimQuestion ==
  /\ fn = "sim_question_loop" /\ pc = "question"
  /\ \E line \in SimQuestions :
       LET question == strip(line)
           kind == sim_question_kind(question, off_topic_mode)
           asked == << <<"input", line>> >>
       IN /\ raw' = line /\ ret' = question
          /\ pc' = IF kind = "leave" THEN "returned"
                   ELSE IF kind = "lookup" /\ sim_match_faq(question) = None THEN "course_or_chat"
                   ELSE "question"
          /\ off_topic_mode' = IF kind = "course" THEN FALSE ELSE off_topic_mode
          /\ events' = asked \o
               (IF kind = "leave" THEN <<>>
                ELSE IF kind = "course"
                THEN sim_say(<<"Back to the lesson. Ask me a Sun or solar system question!">>)
                ELSE IF kind = "topics" THEN sim_say(sim_topics)
                ELSE IF kind = "off_topic"
                THEN sim_say(<<"I can only chat about the Sun and solar system right now. Type 'course' to return to the lesson.">>)
                ELSE << <<"match_faq", question>> >> \o
                     (IF sim_match_faq(question) # None
                      THEN sim_say(Val(sim_match_faq(question)))
                      ELSE sim_say(<<"That sounds off-topic. Want to keep learning about the Sun or chat freely?">>)))
  /\ UNCHANGED <<fn, option_keywords, accepted_answers, devices, direction>>
  /\ UNCHANGED <<detectVars, audio, voice, engines, tmp_file, backends, runVars, tts_engine>>

\* choice = input("Type 'course' or 'chat': ").strip().lower() and the
\* branch taken
SimCourseOrChat ==
  /\ fn = "sim_question_loop" /\ pc = "course_or_chat"
  /\ \E line \in SimChoices :
       /\ raw' = line /\ ret' = str_lower(strip(line))
       /\ IF str_lower(strip(line)) = <<"c","h","a","t">>
          THEN /\ off_topic_mode' = TRUE
               /\ events' = events \o << <<"input", line>> >>
                    \o sim_say(<<"Off-topic chat isn't available offline. Ask a Sun question or type 'topics'.">>)
          ELSE /\ off_topic_mode' = off_topic_mode
               /\ events' = events \o << <<"input", line>> >>
                    \o sim_say(<<"Great! ">> \o sim_topics)
  /\ pc' = "question"
  /\ UNCHANGED <<fn, option_keywords, accepted_answers, devices, direction>>
  /\ UNCHANGED <<detectVars, audio, voice, engines, tmp_file, backends, runVars, tts_engine>>

NextSim == SimQuestion \/ SimCourseOrChat

SpecSim == InitSim /\ [][NextSim]_vars

\* the responses of the FAQ
SimResponses == {SIM_FAQ_ENTRIES[i].response : i \in DOMAIN SIM_FAQ_ENTRIES}

\* an FAQ response is among the texts printed in ev
SaysFaqResponse(ev) == \E k \in Places(ev, "print") : ev[k][2] \in SimResponses

\* one step of the loop
SimTurn ==
  LET leave == {<<"b","a","c","k">>, <<"e","x","i","t">>, <<"q","u","i","t">>}
      clear == {<<"c","o","u","r","s","e">>, <<"l","e","s","s","o","n">>}
      list == {<<"t","o","p","i","c","s">>, <<"h","e","l","p">>}
  IN /\ off_topic_mode =>
          /\ ~Did(events', "match_faq") /\ ~SaysFaqResponse(events')
          /\ ~off_topic_mode' <=> normalize(ret') \in clear
     /\ (~off_topic_mode /\ off_topic_mode') =>
          /\ pc = "course_or_chat" /\ ret' = <<"c","h","a","t">>
          /\ Did(events, "match_faq") /\ sim_match_faq(ret) = None
     /\ pc = "question" =>
          /\ pc' = "returned" <=> normalize(ret') \in leave
          /\ normalize(ret') \in list =>
               /\ Printed(events') = <<sim_topics>>
               /\ pc' = "question" /\ off_topic_mode' = off_topic_mode

\* C29: in the simulation programs' question_loop, once off-topic mode is
\* entered (by "chat" after an unmatched question) there is no FAQ lookup
\* and no FAQ response until "course" or "lesson" is entered, which clears
\* the mode; "back", "exit" and "quit" leave the loop and "topics" and "help"
\* list the topics in either mode.
C29_NoLookupInOffTopicMode ==
  [](off_topic_mode => pc # "course_or_chat") /\ [][SimTurn]_vars

\* in off-topic mode a question the FAQ could answer was refused
C29_Witness ==
  /\ fn = "sim_question_loop" /\ pc = "question" /\ off_topic_mode
  /\ ret = <<"h","o","w"," ","o","l","d"," ","i","s"," ","t","h","e"," ","s","u","n">>
  /\ sim_match_faq(ret) # None
  /\ ~Did(events, "match_faq") /\ Did(events, "print")

\* ---------------------------------------------------------------------
\* The text-to-speech talker: interactive_mode
\* ---------------------------------------------------------------------
\* the number of voices the synthesis engine has
MaxVoices == 2

\* tts_engine.getProperty('voices'): voice k has the id <<"voice", k>>
Voices == [k \in 1..MaxVoices |-> [id |-> <<"voice", k - 1>>]]

\* the defaults of configure_voice: rate=150, volume=1.0
DefaultRate == 150

DefaultVolume == "1.0"

\* configure_voice(rate, volume, voice_index): rate and volume are set
\* whatever the caller named, the voice when the index is one of a voice
configure_voice(engine, rate, volume, voice_index) ==
  LET set == [engine EXCEPT !.rate = rate, !.volume = volume]
  IN IF voice_index # None /\ 0 <= Val(voice_index) /\ Val(voice_index) < Len(Voices)
     THEN [set EXCEPT !.voice = Voices[Val(voice_index) + 1].id]
     ELSE set

\* str.startswith(prefix)
startswith(s, prefix) == Len(s) >= Len(prefix) /\ SubSeq(s, 1, Len(prefix)) = prefix

\* the lines typed at "What should Reachy say? "
TalkLines ==
  {<<>>,
   <<"h","e","l","l","o">>,
   <<"q","u","i","t">>,
   <<" ","E","X","I","T"," ">>,
   <<"d","e","m","o">>,
   <<"v","o","i","c","e","s">>,
   <<"s","p","e","e","d"," ","1","8","0">>,
   <<"s","p","e","e","d"," ","1","2","0">>,
   <<" ","S","P","E","E","D"," ","2","0","0"," ">>,
   <<"s","p","e","e","d"," ","a","b","c">>,
   <<"s","p","e","e","d">>,
   <<"s","p","e","e","d"," ","1","x"," ","5">>,
   <<"v","o","i","c","e"," ","0">>,
   <<"v","o","i","c","e"," ","1">>,
   <<"V","o","i","c","e"," ","1">>,
   <<"v","o","i","c","e"," ","7">>,
   <<"v","o","i","c","e"," ","x">>,
   <<"v","o","i","c","e">>}

\* interactive_mode: the branch a stripped line takes
talk_command(user_input) ==
  LET low == str_lower(user_input) IN
  IF user_input = <<>> THEN "empty"
  ELSE IF low \in {<<"q","u","i","t">>, <<"e","x","i","t">>, <<"q">>} THEN "quit"
  ELSE IF low = <<"d","e","m","o">> THEN "demo"
  ELSE IF low = <<"v","o","i","c","e","s">> THEN "voices"
  ELSE IF startswith(low, <<"s","p","e","e","d"," ">>) THEN "speed"
  ELSE IF startswith(low, <<"v","o","i","c","e"," ">>) THEN "voice"
  ELSE "say"

\* int(user_input.split()[1]) raises IndexError or ValueError
number_raises(user_input) ==
  Len(split(user_input)) < 2 \/ int_raises(split(user_input)[2])

\* int(user_input.split()[1])
number(user_input) == int(split(user_input)[2])

\* the talker after ReachyMiniLiteTalker(): pyttsx3.init() and
\* configure_voice() with its defaults; the voice is the engine's own choice
InitTalk ==
  /\ fn = "interactive_mode" /\ pc = "input"
  /\ \E k \in DOMAIN Voices :
       tts_engine = [rate |-> DefaultRate, volume |-> DefaultVolume, voice |-> Voices[k].id]
  /\ off_topic_mode = FALSE
  /\ events = <<>> /\ raw = <<>> /\ ret = <<>> /\ NoArgs
  /\ DetectIdle /\ RunIdle /\ backends = AllBackends
  /\ audio = <<>> /\ voice = None /\ engines = 0 /\ tmp_file = FALSE

\* one round of the while loop: the line typed and the branch taken;
\* talker.speak() can raise, which the except Exception of the loop catches
TalkCommand ==
  /\ fn = "interactive_mode" /\ pc = "input"
  /\ \E line \in TalkLines, spoken \in BOOLEAN :
       LET user_input == strip(line)
           kind == talk_command(user_input)
       IN /\ raw' = line /\ ret' = user_input
          /\ kind \notin {"quit", "say"} => spoken
          /\ pc' = IF kind = "quit" /\ spoken THEN "ended" ELSE "input"
          /\ tts_engine' =
               IF kind = "speed" /\ ~number_raises(user_input)
               THEN configure_voice(tts_engine, number(user_input), DefaultVolume, None)
               ELSE IF kind = "voice" /\ ~number_raises(user_input)
               THEN configure_voice(tts_engine, DefaultRate, DefaultVolume, Some(number(user_input)))
               ELSE tts_engine
          /\ events' = << <<"input", line>>,
               IF kind \in {"speed", "voice"} /\ number_raises(user_input) THEN <<"print", "Usage">>
               ELSE IF kind \in {"quit", "say"}
                    THEN <<"speak", IF spoken THEN "returned" ELSE "raised">>
               ELSE <<"command", kind>> >>
  /\ UNCHANGED <<fn, option_keywords, accepted_answers, devices, direction>>
  /\ UNCHANGED <<detectVars, audio, voice, engines, tmp_file, backends, runVars, off_topic_mode>>

\* input() is interrupted: except KeyboardInterrupt says goodbye and breaks
TalkInterrupt ==
  /\ fn = "interactive_mode" /\ pc = "input"
  /\ pc' = "ended"
  /\ events' = << <<"interrupt", "KeyboardInterrupt">> >>
  /\ UNCHANGED <<fn, raw, ret, option_keywords, accepted_answers, devices, direction>>
  /\ UNCHANGED <<detectVars, audio, voice, engines, tmp_file, backends, runVars, otherVars>>

NextTalk == TalkCommand \/ TalkInterrupt

SpecTalk == InitTalk /\ [][NextTalk]_vars

\* one command of interactive mode, read from the line that was typed
SettingsStep ==
  (fn = "interactive_mode" /\ pc = "input" /\ events'[1][1] = "input") =>
    LET typed == strip(raw')
        low == str_lower(typed)
        words == split(typed)
        speed == startswith(low, <<"s","p","e","e","d"," ">>)
        voice_n == startswith(low, <<"v","o","i","c","e"," ">>)
        malformed == Len(words) < 2 \/ \E k \in DOMAIN words[2] : words[2][k] \notin DigitChars
    IN /\ (voice_n /\ ~malformed) => tts_engine'.rate = tts_engine.rate
       /\ (speed /\ ~malformed) =>
            (tts_engine'.voice = tts_engine.voice /\ tts_engine'.rate = int(words[2]))
       /\ ((speed \/ voice_n) /\ malformed) => (tts_engine' = tts_engine /\ pc' = "input")

\* C30: in the talker's interactive mode each settings command changes only
\* the property it names: "voice N" leaves the speech rate of the last
\* successful "speed" command as it was, "speed N" leaves the selected voice
\* as it was, and a malformed "speed" or "voice" command changes nothing and
\* does not end the loop.
C30_SettingsChangeOnlyTheirProperty == [][SettingsStep]_vars

\* ---------------------------------------------------------------------
\* All calls
\* ---------------------------------------------------------------------
Init ==
  \/ InitNormalize \/ InitMenu \/ InitAnswer \/ InitFaq \/ InitDevice
  \/ InitDetect \/ InitMic \/ InitVoice \/ InitRun \/ InitSim \/ InitTalk

Next ==
  \/ Normalize \/ ParseMenuChoice \/ IsCorrectAnswer \/ MatchFaq \/ FindReachyDevice
  \/ NextDetect \/ TestMicrophone \/ NextVoice \/ NextRun \/ NextSim \/ NextTalk

Spec == Init /\ [][Next]_vars

====
